---------------------------- MODULE Spec2Model ----------------------------
(***************************************************************************)
(* linear-pr: a CLI that opens a GitHub pull request for a Linear task.    *)
(*                                                                         *)
(* The module models one run of the orchestrator createPullRequest (pr),   *)
(* with the calls it makes: getTask / isTaskAssignedToCurrentUser (linear),*)
(* createBranch and the gateway's createPullRequest (github), and the pure *)
(* string functions of utils.  A string is a sequence of one-character     *)
(* strings.  Every git command and every remote request is one step whose  *)
(* outcome is appended to `log`.  A run is started by a call of an         *)
(* exported function (createPullRequest, attachPRToTask) or by a command   *)
(* of the CLI (create, setup, config-oauth); `cmd` says which, `proc` how  *)
(* the process ended, and `oauth` holds the loopback flow of               *)
(* performOAuth2Flow: its listener, its timer, its promise and the         *)
(* requests that reached it.                                               *)
(***************************************************************************)
EXTENDS Naturals, Sequences, FiniteSets

(***************************************************************************)
(* Characters and strings                                                  *)
(***************************************************************************)
LowerSeq == <<"a","b","c","d","e","f","g","h","i","j","k","l","m",
              "n","o","p","q","r","s","t","u","v","w","x","y","z">>
UpperSeq == <<"A","B","C","D","E","F","G","H","I","J","K","L","M",
              "N","O","P","Q","R","S","T","U","V","W","X","Y","Z">>
DigitSeq == <<"0","1","2","3","4","5","6","7","8","9">>

LowerChars == {LowerSeq[i] : i \in 1..Len(LowerSeq)}
UpperChars == {UpperSeq[i] : i \in 1..Len(UpperSeq)}
DigitChars == {DigitSeq[i] : i \in 1..Len(DigitSeq)}
LetterChars == LowerChars \cup UpperChars
\* \w of a JavaScript regular expression
WordChars == LetterChars \cup DigitChars \cup {"_"}
\* \s of a JavaScript regular expression, as far as the model's alphabet goes
SpaceChars == {" "}
\* [a-z0-9-]
ScopeChars == LowerChars \cup DigitChars \cup {"-"}

\* String.prototype.toLowerCase / toUpperCase, one character
LowerChar(c) ==
    IF c \in UpperChars
    THEN LowerSeq[CHOOSE i \in 1..Len(UpperSeq) : UpperSeq[i] = c]
    ELSE c
UpperChar(c) ==
    IF c \in LowerChars
    THEN UpperSeq[CHOOSE i \in 1..Len(LowerSeq) : LowerSeq[i] = c]
    ELSE c
toLowerCase(s) == [i \in 1..Len(s) |-> LowerChar(s[i])]
toUpperCase(s) == [i \in 1..Len(s) |-> UpperChar(s[i])]

\* String.prototype.includes, for one character
includes(s, c) == \E i \in 1..Len(s) : s[i] = c

\* the position of the last occurrence of c in s, 0 when there is none
LastIndexOf(s, c) ==
    IF includes(s, c)
    THEN CHOOSE i \in 1..Len(s) : s[i] = c /\ \A j \in (i+1)..Len(s) : s[j] # c
    ELSE 0
\* the position of the first occurrence of c in s, 0 when there is none
IndexOf(s, c) ==
    IF includes(s, c)
    THEN CHOOSE i \in 1..Len(s) : s[i] = c /\ \A j \in 1..(i-1) : s[j] # c
    ELSE 0

\* the characters of s for which Keep holds, in order
RECURSIVE FilterChars(_, _)
FilterChars(s, keep) ==
    IF s = <<>> THEN <<>>
    ELSE (IF Head(s) \in keep THEN <<Head(s)>> ELSE <<>>) \o FilterChars(Tail(s), keep)

\* s with every maximal run of characters of `run` replaced by the one character c
RECURSIVE CollapseRuns(_, _, _)
CollapseRuns(s, run, c) ==
    IF s = <<>> THEN <<>>
    ELSE IF Head(s) \in run
         THEN IF Len(s) > 1 /\ s[2] \in run
              THEN CollapseRuns(Tail(s), run, c)
              ELSE <<c>> \o CollapseRuns(Tail(s), run, c)
         ELSE <<Head(s)>> \o CollapseRuns(Tail(s), run, c)

\* s without its leading characters of `strip`
RECURSIVE StripLeading(_, _)
StripLeading(s, strip) ==
    IF s # <<>> /\ Head(s) \in strip THEN StripLeading(Tail(s), strip) ELSE s
\* s without its trailing characters of `strip`
RECURSIVE StripTrailing(_, _)
StripTrailing(s, strip) ==
    IF s # <<>> /\ s[Len(s)] \in strip
    THEN StripTrailing(SubSeq(s, 1, Len(s) - 1), strip)
    ELSE s
\* String.prototype.trim
trim(s) == StripTrailing(StripLeading(s, SpaceChars), SpaceChars)

\* parseInt(digits, 10) of a non-empty run of digits
RECURSIVE parseInt(_)
parseInt(d) ==
    IF d = <<>> THEN 0
    ELSE 10 * parseInt(SubSeq(d, 1, Len(d) - 1))
         + ((CHOOSE i \in 1..Len(DigitSeq) : DigitSeq[i] = d[Len(d)]) - 1)

(***************************************************************************)
(* utils: the identifier normalizer                                        *)
(***************************************************************************)
\* /^[A-Z]+-\d+$/i
validateTaskId(s) ==
    \E k \in 2..(Len(s) - 1) :
        /\ s[k] = "-"
        /\ \A i \in 1..(k-1) : s[i] \in LetterChars
        /\ \A i \in (k+1)..Len(s) : s[i] \in DigitChars

\* s matches /([a-z]+-\d+)/i at position p: a run of letters starting at p, a
\* hyphen, at least one digit
MatchesAt(s, p) ==
    \E k \in (p+1)..(Len(s) - 1) :
        /\ \A i \in p..(k-1) : s[i] \in LetterChars
        /\ s[k] = "-"
        /\ s[k+1] \in DigitChars
\* the end of the maximal run of characters of `cls` that starts at position p
RunEnd(s, p, cls) ==
    CHOOSE e \in p..Len(s) :
        /\ \A i \in p..e : s[i] \in cls
        /\ (e = Len(s) \/ s[e+1] \notin cls)
Null == <<"\\null">>
\* String.prototype.match(/([a-z]+-\d+)/i)[1]: the leftmost match, letters and
\* digits taken greedily; Null when there is no match
FirstTaskIdMatch(s) ==
    IF \E p \in 1..Len(s) : MatchesAt(s, p)
    THEN LET p == CHOOSE q \in 1..Len(s) :
                      MatchesAt(s, q) /\ \A r \in 1..(q-1) : ~MatchesAt(s, r)
             h == RunEnd(s, p, LetterChars) + 1
         IN  SubSeq(s, p, RunEnd(s, h + 1, DigitChars))
    ELSE Null

\* faulty variant: the match is returned in the case it was written in
extractTaskIdKeepsCase(branchName) ==
    LET last == SubSeq(branchName, LastIndexOf(branchName, "/") + 1, Len(branchName))
        withoutPrefix == IF last # <<>> THEN last ELSE branchName
    IN  FirstTaskIdMatch(withoutPrefix)

extractTaskIdFromBranchName(branchName) ==
    LET last == SubSeq(branchName, LastIndexOf(branchName, "/") + 1, Len(branchName))
        withoutPrefix == IF last # <<>> THEN last ELSE branchName
        match == FirstTaskIdMatch(withoutPrefix)
    IN  IF match # Null THEN toUpperCase(match) ELSE Null

\* String.prototype.split('-'): the piece number n (1-based), Null when absent
RECURSIVE SplitPiece(_, _)
SplitPiece(s, n) ==
    LET h == IndexOf(s, "-")
    IN  IF n = 1
        THEN (IF h = 0 THEN s ELSE SubSeq(s, 1, h - 1))
        ELSE IF h = 0 THEN Null ELSE SplitPiece(SubSeq(s, h + 1, Len(s)), n - 1)

createBranchName(taskId, taskTitle) ==
    LET sanitizedTitle ==
            trim(CollapseRuns(FilterChars(toLowerCase(taskTitle),
                                          WordChars \cup SpaceChars \cup {"-"}),
                              SpaceChars, "-"))
        teamPrefix == toLowerCase(SplitPiece(taskId, 1))
        second == SplitPiece(taskId, 2)
        number == IF second = Null THEN <<"u","n","d","e","f","i","n","e","d">> ELSE second
    IN  <<"f","e","a","t","u","r","e","/">> \o teamPrefix \o <<"-">> \o number
            \o <<"-">> \o sanitizedTitle

\* faulty variant: the leading and trailing hyphens are not removed
formatScopeKeepsEdges(input) ==
    LET lowered == toLowerCase(input)
        replaced == [i \in 1..Len(lowered) |->
                        IF lowered[i] \in ScopeChars THEN lowered[i] ELSE "-"]
    IN  CollapseRuns(replaced, {"-"}, "-")

formatScope(input) ==
    LET lowered == toLowerCase(input)
        replaced == [i \in 1..Len(lowered) |->
                        IF lowered[i] \in ScopeChars THEN lowered[i] ELSE "-"]
        collapsed == CollapseRuns(replaced, {"-"}, "-")
    IN  StripTrailing(StripLeading(collapsed, {"-"}), {"-"})

createPRTitle(type, module, taskId, description) ==
    LET formattedModule == formatScope(module)
        formattedTaskId == toUpperCase(taskId)
    IN  type \o <<"(">> \o formattedModule \o <<")", ":", " ", "[">>
             \o formattedTaskId \o <<"]", " ">> \o description

(***************************************************************************)
(* Bounds and the inputs drawn from them                                   *)
(***************************************************************************)
\* longest enumerated task reference
MaxRefLen == 3
\* longest enumerated module, project name and prompt answer
MaxScopeLen == 2
\* most commits the branch is ahead of a base ref when the run starts
MaxAhead == 1
\* the most requests that reach the loopback listener of one OAuth flow
MaxCallbacks == 2
\* longest enumerated argument of a call of an exported function of utils
MaxInputLen == 4

\* all strings over `alphabet` of length at most n
Strs(alphabet, n) == UNION {[1..k -> alphabet] : k \in 0..n}

RefAlphabet == {"e", "4", "-", "/"}
ScopeAlphabet == {"a", "B", "-", " "}

Development == <<"d","e","v","e","l","o","p","m","e","n","t">>
Main == <<"m","a","i","n">>
General == <<"g","e","n","e","r","a","l">>
Owner == <<"o","r","g">>
BaseNames == {Development, Main}

\* pr: VALID_PR_TYPES
VALID_PR_TYPES ==
    << <<"f","e","a","t">>, <<"f","i","x">>, <<"d","o","c","s">>,
       <<"s","t","y","l","e">>, <<"r","e","f","a","c","t","o","r">>,
       <<"p","e","r","f">>, <<"t","e","s","t">>, <<"c","h","o","r","e">>,
       <<"c","i">>, <<"b","u","i","l","d">>, <<"r","e","v","e","r","t">> >>
ValidTypes == {VALID_PR_TYPES[i] : i \in 1..Len(VALID_PR_TYPES)}

\* pr: validateScope, /^[a-z0-9-]+$/
validateScope(scope) ==
    /\ scope # <<>>
    /\ \A i \in 1..Len(scope) : scope[i] \in ScopeChars

\* pr: formatScopeString
formatScopeString(input) == formatScope(input)

\* the task references a caller may pass
SampleRef == <<"f","/","e","-","4">>
TaskRefs == Strs(RefAlphabet, MaxRefLen) \cup {SampleRef, <<"E","-","4">>}
\* the -t values a caller may pass
TypeArgs == {<<"f","e","a","t">>, <<"F","i","x">>, <<"w","i","p">>}
\* the -m values a caller may pass; Null when the option is absent
ModuleArgs == Strs(ScopeAlphabet, MaxScopeLen) \cup {Null}
\* what the caller may type at a module prompt: inquirer asks again until
\* validate accepts the answer
ModuleAnswers == {s \in Strs(ScopeAlphabet, MaxScopeLen) : validateScope(s)}

\* the options of one invocation (CreatePROptions)
Invocation(taskId, type, module, enforceAssignment, useExactBranchName) ==
    [taskId |-> taskId, type |-> type, module |-> module,
     enforceAssignment |-> enforceAssignment, useExactBranchName |-> useExactBranchName]
Feat == <<"f","e","a","t">>
SampleModule == <<"a">>
\* the sample invocation: create f/e-4 -t feat -m a
SampleInvocation == Invocation(SampleRef, Feat, SampleModule, FALSE, TRUE)

\* the issue tracker: the issue E-4 as the tracker holds it, or no issue
Issue(title, projectName, assignee) ==
    [taskId |-> <<"E","-","4">>, title |-> title, projectName |-> projectName,
     assignee |-> assignee]
NoIssue == [taskId |-> Null, title |-> Null, projectName |-> Null, assignee |-> "none"]
IssueTitle == <<"A"," ","b">>
ProjectNames == Strs(ScopeAlphabet, MaxScopeLen) \ {<<>>}
Assignees == {"me", "other", "none"}
SampleIssue == Issue(IssueTitle, Null, "me")

\* the persisted configuration (Conf): whether each credential is stored,
\* the auth-mode flag and the default base branch
Conf(linear, github, githubRepo, base, oauthApp) ==
    [linearAccessToken |-> linear, isApiKey |-> linear,
     githubToken |-> github, githubUsername |-> github, githubRepo |-> githubRepo,
     defaultBranch |-> base,
     linearOAuthClientId |-> oauthApp, linearOAuthClientSecret |-> oauthApp]
Configs ==
    {Conf(linear, github, githubRepo, base, FALSE) :
        linear \in BOOLEAN, github \in BOOLEAN, githubRepo \in BOOLEAN, base \in BaseNames}
SetUpConfig == Conf(TRUE, TRUE, TRUE, Development, FALSE)
\* as it is after config-oauth and a setup through OAuth
StoredOAuthConfig == [Conf(TRUE, TRUE, TRUE, Development, TRUE) EXCEPT !.isApiKey = FALSE]

\* the working directory: not a git repository, or a repository with its
\* local branches, its remote-tracking refs (origin/<name>), the branches
\* of the remote origin itself, the branch checked out (<<>> on a detached
\* HEAD) and, per base name, the number of commits of HEAD that are not on
\* origin/<name>.  `flaky` tells whether git commands and requests to the
\* source host can fail for reasons the repository's state does not show.
NoneAhead == [b \in BaseNames |-> 0]
NotARepository ==
    [isRepo |-> FALSE, localBranches |-> {}, remoteRefs |-> {}, remote |-> {},
     currentBranch |-> <<>>, ahead |-> NoneAhead, flaky |-> TRUE]
CleanRepository ==
    [isRepo |-> TRUE, localBranches |-> {Development}, remoteRefs |-> {Development},
     remote |-> {Development}, currentBranch |-> Development, ahead |-> NoneAhead,
     flaky |-> FALSE]
\* the repositories that hold any of the base branch and the target branch,
\* locally, as remote-tracking refs and on the remote
BranchRepositories(target, base) ==
    {r \in [isRepo : {TRUE},
            localBranches : SUBSET {base, target},
            remoteRefs : SUBSET {base, target},
            remote : SUBSET {base, target},
            currentBranch : {base, target, <<>>},
            ahead : {NoneAhead},
            flaky : {TRUE}] :
        r.currentBranch \in r.localBranches \cup {<<>>}}
    \cup {NotARepository}
\* the repositories with the target branch checked out, any number of commits
\* ahead of each base ref
CommitRepositories(target, base) ==
    [isRepo : {TRUE},
     localBranches : {{base, target}},
     remoteRefs : SUBSET BaseNames,
     remote : {{base}, {base, target}},
     currentBranch : {target},
     ahead : [BaseNames -> 0..MaxAhead],
     flaky : {TRUE}]

(***************************************************************************)
(* State                                                                   *)
(***************************************************************************)
VARIABLES
    pc,              \* the position of the run in the code
    opts,            \* pr: the options createPullRequest was called with
    issue,           \* the issue tracker's state
    config,          \* the persisted configuration
    repo,            \* the working directory and its git repository
    type,            \* pr: createPullRequest's local `type`
    extractedTaskId, \* pr: createPullRequest's local `extractedTaskId`
    exactBranchName, \* pr: createPullRequest's local `exactBranchName`
    task,            \* pr: createPullRequest's local `task`
    module,          \* pr: createPullRequest's local `module`
    branchName,      \* pr: createPullRequest's local `branchName`
    prTitle,         \* pr: createPullRequest's local `prTitle`
    stages,          \* history: the stages of the orchestrator entered so far
    log,             \* history: git commands, remote requests and prompts, with outcome
    requests,        \* history: the PR-creation requests sent to the source host
    result,          \* how the run ended: its status and, on error, the message parts
    proc,            \* the process: whether it has ended, and with which exit code
    cmd,             \* how the run was started: the command or call and its arguments
    oauth            \* linear: the state of performOAuth2Flow

vars == <<pc, opts, issue, config, repo, type, extractedTaskId, exactBranchName,
          task, module, branchName, prTitle, stages, log, requests, result, proc,
          cmd, oauth>>

locals == <<type, extractedTaskId, exactBranchName, task, module, branchName, prTitle>>
world == <<issue, config, repo>>

NoTask == [id |-> Null, taskId |-> Null, title |-> Null, projectName |-> Null,
           isAssigned |-> FALSE]
Running == [status |-> "running", msgs |-> <<>>]

\* the process: it ends by process.exit(code) (explicit) or by running out of
\* work, which gives the code 0
Alive == [exited |-> FALSE, code |-> 0, explicit |-> FALSE]
Exit(code) == [exited |-> TRUE, code |-> code, explicit |-> TRUE]
Finished == [exited |-> TRUE, code |-> 0, explicit |-> FALSE]

\* cli: the commands of the program; every other run is a call of an exported
\* function
Commands == {"setup", "config-oauth", "create"}

\* a call of the exported createPullRequest with the options object `raw`
ApiCall(raw) == [name |-> "api", args |-> raw]

\* linear: performOAuth2Flow has not been called
NoFlow == [server |-> "none", timer |-> "none", promise |-> "none", reason |-> "",
           calls |-> <<>>, callbacks |-> <<>>]

\* one entry of the log
Ev(op, arg, ok) == [op |-> op, arg |-> arg, ok |-> ok]

\* faulty variant: the exact-branch-name option is off when the caller leaves it out
DestructureExactOff(raw) ==
    [taskId |-> raw.taskId, type |-> raw.type, module |-> raw.module,
     enforceAssignment |-> IF raw.enforceAssignment = "undefined" THEN FALSE
                           ELSE raw.enforceAssignment = "true",
     useExactBranchName |-> raw.useExactBranchName = "true"]

\* pr: the destructuring of the options object, with its defaults; an option
\* is "undefined" when the caller left it out
Destructure(raw) ==
    [taskId |-> raw.taskId, type |-> raw.type, module |-> raw.module,
     enforceAssignment |-> IF raw.enforceAssignment = "undefined" THEN FALSE
                           ELSE raw.enforceAssignment = "true",
     useExactBranchName |-> IF raw.useExactBranchName = "undefined" THEN TRUE
                            ELSE raw.useExactBranchName = "true"]

\* the options object in which both flags are given
Given(o) ==
    [taskId |-> o.taskId, type |-> o.type, module |-> o.module,
     enforceAssignment |-> IF o.enforceAssignment THEN "true" ELSE "false",
     useExactBranchName |-> IF o.useExactBranchName THEN "true" ELSE "false"]

\* createPullRequest is entered with the options object `raw`
Enter(raw, i, c, r) ==
    /\ pc = "start"
    /\ opts = Destructure(raw)
    /\ issue = i
    /\ config = c
    /\ repo = r
    /\ type = raw.type
    /\ extractedTaskId = Null
    /\ exactBranchName = Destructure(raw).useExactBranchName
    /\ task = NoTask
    /\ module = raw.module
    /\ branchName = Null
    /\ prTitle = Null
    /\ stages = <<>>
    /\ log = <<>>
    /\ requests = <<>>
    /\ result = Running
    /\ proc = Alive
    /\ cmd = ApiCall(raw)
    /\ oauth = NoFlow

Start(o, i, c, r) ==
    /\ pc = "start"
    /\ opts = o
    /\ proc = Alive
    /\ cmd = ApiCall(Given(o))
    /\ oauth = NoFlow
    /\ issue = i
    /\ config = c
    /\ repo = r
    /\ type = o.type
    /\ extractedTaskId = Null
    /\ exactBranchName = o.useExactBranchName
    /\ task = NoTask
    /\ module = o.module
    /\ branchName = Null
    /\ prTitle = Null
    /\ stages = <<>>
    /\ log = <<>>
    /\ requests = <<>>
    /\ result = Running

\* createPullRequest has not been called: its options and locals are not set
NoOptions == Invocation(Null, Null, Null, FALSE, FALSE)

\* a command of the program has been started and its handler is about to run
AtCommand(c, i, cf, r) ==
    /\ pc = c.name
    /\ cmd = c
    /\ opts = NoOptions
    /\ issue = i
    /\ config = cf
    /\ repo = r
    /\ type = Null
    /\ extractedTaskId = Null
    /\ exactBranchName = FALSE
    /\ task = NoTask
    /\ module = Null
    /\ branchName = Null
    /\ prTitle = Null
    /\ stages = <<>>
    /\ log = <<>>
    /\ requests = <<>>
    /\ result = Running
    /\ proc = Alive
    /\ oauth = NoFlow

\* cli: `create [taskIdOrBranch] -t <type> -m <module> -a -e` as commander
\* hands it to the handler; -a and -e are false unless given
CreateArgs(taskIdOrBranch, t, m, enforceAssignment, exactBranch) ==
    [name |-> "create",
     args |-> [taskIdOrBranch |-> taskIdOrBranch, type |-> t, module |-> m,
               enforceAssignment |-> enforceAssignment, exactBranch |-> exactBranch]]

PlainRef == <<"E","-","4">>

\* any task reference and both flags, the rest as in the sample
InitRefs ==
    \E ref \in TaskRefs, enforce \in BOOLEAN, exact \in BOOLEAN :
        Start(Invocation(ref, Feat, SampleModule, enforce, exact),
              SampleIssue, SetUpConfig, CleanRepository)
\* any module and type
InitModules ==
    \E m \in ModuleArgs, t \in TypeArgs :
        Start(Invocation(SampleRef, t, m, FALSE, TRUE),
              SampleIssue, SetUpConfig, CleanRepository)
\* no module, any project name
InitProjects ==
    \E p \in ProjectNames \cup {Null} :
        Start(Invocation(SampleRef, Feat, Null, FALSE, TRUE),
              Issue(IssueTitle, p, "me"), SetUpConfig, CleanRepository)
\* any assignee or no issue at all, any stored credentials
InitTracker ==
    \E enforce \in BOOLEAN, i \in {Issue(IssueTitle, Null, a) : a \in Assignees} \cup {NoIssue},
       c \in Configs :
        /\ c.defaultBranch = Development
        /\ Start(Invocation(SampleRef, Feat, SampleModule, enforce, TRUE),
                 i, c, CleanRepository)
\* any branches in the repository
InitBranches ==
    \E r \in BranchRepositories(SampleRef, Development) :
        Start(SampleInvocation, SampleIssue, SetUpConfig, r)
\* any commits on the target branch, any default base branch
InitCommits ==
    \E base \in BaseNames :
        \E r \in CommitRepositories(SampleRef, base) :
            Start(SampleInvocation, SampleIssue,
                  [SetUpConfig EXCEPT !.defaultBranch = base], r)

\* calls of createPullRequest that leave flags out
InitDefaults ==
    \E ref \in {SampleRef, PlainRef}, a \in {"undefined", "true", "false"},
       e \in {"undefined", "true", "false"} :
        Enter([taskId |-> ref, type |-> Feat, module |-> SampleModule,
               enforceAssignment |-> a, useExactBranchName |-> e],
              SampleIssue, SetUpConfig, CleanRepository)
\* the create command, with and without a task reference
InitCreate ==
    \E ref \in {Null, SampleRef, PlainRef}, a \in BOOLEAN, e \in BOOLEAN,
       i \in {SampleIssue, Issue(IssueTitle, Null, "other"), NoIssue},
       linear \in BOOLEAN, flaky \in BOOLEAN :
        AtCommand(CreateArgs(ref, Feat, SampleModule, a, e), i,
                  [SetUpConfig EXCEPT !.linearAccessToken = linear],
                  [CleanRepository EXCEPT !.flaky = flaky])

\* calls of the exported attachPRToTask
InitAttach ==
    \E i \in {SampleIssue, NoIssue}, linear \in BOOLEAN, flaky \in BOOLEAN :
        AtCommand([name |-> "attach", args |-> [taskId |-> PlainRef, prUrl |-> "url"]], i,
                  [SetUpConfig EXCEPT !.linearAccessToken = linear],
                  [CleanRepository EXCEPT !.flaky = flaky])

\* the setup command, with and without its flags, and config-oauth
InitSetup ==
    \E linearApiKey \in BOOLEAN, githubToken \in BOOLEAN,
       cf \in {Conf(FALSE, FALSE, FALSE, Development, app) : app \in BOOLEAN}
              \cup {SetUpConfig, StoredOAuthConfig} :
        AtCommand([name |-> "setup",
                   args |-> [linearApiKey |-> linearApiKey, githubToken |-> githubToken]],
                  NoIssue, cf, CleanRepository)
InitConfigOAuth ==
    \E clientId \in BOOLEAN, clientSecret \in BOOLEAN :
        AtCommand([name |-> "config-oauth",
                   args |-> [clientId |-> clientId, clientSecret |-> clientSecret]],
                  NoIssue, Conf(TRUE, TRUE, TRUE, Development, FALSE), CleanRepository)

\* utils: the examples of the documentation of extractTaskIdFromBranchName
DocBranch == <<"f","e","a","t","u","r","e","/","t","e","a","m","-","1","2","3","4","-","c","o","o","l","-","f","e","a","t","u","r","e">>
DocPlain == <<"n","o","-","i","d","-","h","e","r","e">>
BranchAlphabet == {"a", "1", "-", "/"}
TitleAlphabet == {"A", "b", " ", "-", "!"}
LongRef == <<"A","b","-","1","2">>

\* calls of the exported functions of utils with any argument
UtilCalls ==
    {[fn |-> "extractTaskIdFromBranchName", taskId |-> Null, input |-> x] :
        x \in Strs(BranchAlphabet, MaxInputLen) \cup {DocBranch, DocPlain}}
    \cup {[fn |-> "formatScope", taskId |-> Null, input |-> x] :
        x \in Strs(ScopeAlphabet, MaxInputLen)}
    \cup {[fn |-> "createBranchName", taskId |-> id, input |-> x] :
        id \in {PlainRef, LongRef}, x \in Strs(TitleAlphabet, MaxInputLen)}

InitUtils ==
    \E call \in UtilCalls :
        AtCommand([name |-> "utils", args |-> call], NoIssue, SetUpConfig, CleanRepository)

Init ==
    \/ InitSetup
    \/ InitConfigOAuth
    \/ InitDefaults
    \/ InitAttach
    \/ InitCreate
    \/ InitRefs
    \/ InitModules
    \/ InitProjects
    \/ InitTracker
    \/ InitBranches
    \/ InitCommits
    \/ InitUtils

\* faulty variant: under a command the error is dropped and the process ends
\* as after a success
ThrowSwallowed(msgs) ==
    /\ pc' = "failed"
    /\ result' = [status |-> "error", msgs |-> msgs]
    /\ proc' = IF cmd.name \in Commands THEN Finished ELSE proc

\* a throw that leaves createPullRequest: the run ends with the error
\* under a command the error reaches the command's catch, which prints it and
\* calls process.exit(1)
Throw(msgs) ==
    /\ pc' = "failed"
    /\ result' = [status |-> "error", msgs |-> msgs]
    /\ proc' = IF cmd.name \in Commands THEN Exit(1) ELSE proc

(***************************************************************************)
(* linear: getTask and isTaskAssignedToCurrentUser                         *)
(***************************************************************************)
\* the leading run of digits of s, which is what parseInt(s, 10) reads
LeadingDigits(s) ==
    IF s # <<>> /\ s[1] \in DigitChars THEN SubSeq(s, 1, RunEnd(s, 1, DigitChars)) ELSE <<>>

\* whether the issue the tracker holds is the one with this team key and number
IssueMatches(teamKey, number) ==
    /\ issue # NoIssue
    /\ toUpperCase(teamKey) = SplitPiece(issue.taskId, 1)
    /\ number = parseInt(SplitPiece(issue.taskId, 2))

GetTaskError(why, events) ==
    [ok |-> FALSE, task |-> NoTask,
     msgs |-> <<"Failed to fetch Linear task", why>>, events |-> events]

\* getTask(taskId, checkAssignment): every way the call can end, each with the
\* requests it made
getTask(taskId, checkAssignment) ==
    LET teamKey == SplitPiece(taskId, 1)
        issueNumber == SplitPiece(taskId, 2)
        digits == IF issueNumber = Null THEN <<>> ELSE LeadingDigits(issueNumber)
        found == [id |-> issue.taskId, taskId |-> issue.taskId, title |-> issue.title,
                  projectName |-> issue.projectName,
                  isAssigned |-> checkAssignment /\ issue.assignee = "me"]
        issuesOk == <<Ev("linear issues", "", TRUE)>>
        projectOk == IF issue.projectName = Null THEN <<>>
                     ELSE <<Ev("linear project", "", TRUE)>>
    IN  IF ~config.linearAccessToken
        THEN {[ok |-> FALSE, task |-> NoTask, msgs |-> <<"Linear is not set up">>,
               events |-> <<>>]}
        ELSE IF teamKey = <<>> \/ digits = <<>>
        THEN {GetTaskError("Invalid task ID format", <<>>)}
        ELSE {GetTaskError("request failed", <<Ev("linear issues", "", FALSE)>>)}
             \cup (IF ~IssueMatches(teamKey, parseInt(digits))
                   THEN {GetTaskError("not found", issuesOk)}
                   ELSE (IF issue.projectName = Null THEN {}
                         ELSE {GetTaskError("request failed",
                                   issuesOk \o <<Ev("linear project", "", FALSE)>>)})
                        \cup (IF checkAssignment
                              THEN {GetTaskError("request failed",
                                        issuesOk \o projectOk
                                            \o <<Ev("linear viewer", "", FALSE)>>),
                                    [ok |-> TRUE, task |-> found, msgs |-> <<>>,
                                     events |-> issuesOk \o projectOk
                                                  \o <<Ev("linear viewer", "", TRUE)>>]}
                              ELSE {[ok |-> TRUE, task |-> found, msgs |-> <<>>,
                                     events |-> issuesOk \o projectOk]}))

\* a faulty variant that fails open: an error counts as assigned
isTaskAssignedToCurrentUserFailOpen(out) ==
    IF out.ok THEN out.task.isAssigned ELSE TRUE

\* isTaskAssignedToCurrentUser: what it returns for an outcome of getTask(taskId, true)
isTaskAssignedToCurrentUser(out) ==
    IF out.ok THEN out.task.isAssigned ELSE FALSE

\* a JavaScript string that is absent or empty is falsy
Falsy(s) == s = Null \/ s = <<>>

(***************************************************************************)
(* cli: the create command                                                 *)
(***************************************************************************)
\* the call createPullRequest({...}) of the command's handler
Call(raw) ==
    /\ opts' = Destructure(raw)
    /\ type' = raw.type
    /\ module' = raw.module
    /\ exactBranchName' = Destructure(raw).useExactBranchName
    /\ pc' = "start"

\* the options object the handler builds for the task reference `ref`
CreateOptions(ref) ==
    [taskId |-> ref, type |-> cmd.args.type, module |-> cmd.args.module,
     enforceAssignment |-> IF cmd.args.enforceAssignment THEN "true" ELSE "false",
     useExactBranchName |-> IF cmd.args.exactBranch THEN "true" ELSE "false"]

\* process.exit(code) in the handler, before createPullRequest is called
ExitBeforeCall(code) ==
    /\ pc' = "exited"
    /\ proc' = Exit(code)
    /\ UNCHANGED <<opts, type, module, exactBranchName>>

\* create <taskIdOrBranch>
CreateWithArgument ==
    /\ pc = "create"
    /\ ~Falsy(cmd.args.taskIdOrBranch)
    /\ Call(CreateOptions(cmd.args.taskIdOrBranch))
    /\ UNCHANGED <<cmd, oauth, world, extractedTaskId, task, branchName, prTitle,
                   stages, log, requests, result, proc>>

\* getAssignedTasks: the open issues assigned to the viewer, each with the
\* state of its pull request
AssignedTask(taskId, hasExistingPR, hasPRClosed) ==
    [taskId |-> taskId, hasExistingPR |-> hasExistingPR, hasPRClosed |-> hasPRClosed]
AssignedTasks ==
    IF issue # NoIssue /\ issue.assignee = "me"
    THEN {<<AssignedTask(issue.taskId, FALSE, FALSE)>>,
          <<AssignedTask(issue.taskId, TRUE, FALSE)>>,
          <<AssignedTask(issue.taskId, TRUE, TRUE)>>}
    ELSE {<<>>}

\* faulty variant: a task with a closed PR that the prompt returns is passed on
CreateWithSelectionNoRecheck ==
    /\ pc = "create"
    /\ Falsy(cmd.args.taskIdOrBranch)
    /\ \/ \* the tasks cannot be fetched
          /\ log' = Append(log, Ev("linear assigned", "", FALSE))
          /\ ExitBeforeCall(1)
       \/ /\ config.linearAccessToken
          /\ \E tasks \in AssignedTasks :
                 IF tasks = <<>>
                 THEN /\ log' = Append(log, Ev("linear assigned", "none", TRUE))
                      /\ ExitBeforeCall(0)
                 ELSE LET selectedTask == tasks[1]
                          prStatus == IF ~selectedTask.hasExistingPR THEN "no PR"
                                      ELSE IF selectedTask.hasPRClosed THEN "PR Closed"
                                      ELSE "PR Open"
                          prompts == <<Ev("linear assigned", prStatus, TRUE),
                                       Ev("prompt", "searchTerm", TRUE),
                                       Ev("prompt", "sortBy", TRUE)>>
                      IN  IF selectedTask.hasPRClosed
                          THEN \* the choice is disabled: the list prompt throws, or
                               \* it returns the task nevertheless and the check
                               \* after it ends the command
                               \E returned \in BOOLEAN :
                                   /\ log' = prompts
                                                \o <<Ev("prompt", "selectedTaskId", returned)>>
                                   /\ IF returned
                                      THEN Call(CreateOptions(selectedTask.taskId))
                                           /\ proc' = proc
                                      ELSE ExitBeforeCall(1)
                          ELSE IF selectedTask.hasExistingPR
                          THEN \E confirmCreate \in BOOLEAN :
                                   /\ log' = prompts
                                                \o <<Ev("prompt", "selectedTaskId", TRUE),
                                                     Ev("prompt", "confirmCreate", confirmCreate)>>
                                   /\ IF confirmCreate
                                      THEN Call(CreateOptions(selectedTask.taskId))
                                           /\ proc' = proc
                                      ELSE ExitBeforeCall(0)
                          ELSE /\ log' = prompts \o <<Ev("prompt", "selectedTaskId", TRUE)>>
                               /\ Call(CreateOptions(selectedTask.taskId))
                               /\ proc' = proc
    /\ UNCHANGED <<cmd, oauth, world, extractedTaskId, task, branchName, prTitle,
                   stages, requests, result>>

\* create without an argument: selectFromAssignedTasks, then the call
CreateWithSelection ==
    /\ pc = "create"
    /\ Falsy(cmd.args.taskIdOrBranch)
    /\ \/ \* the tasks cannot be fetched
          /\ log' = Append(log, Ev("linear assigned", "", FALSE))
          /\ ExitBeforeCall(1)
       \/ /\ config.linearAccessToken
          /\ \E tasks \in AssignedTasks :
                 IF tasks = <<>>
                 THEN /\ log' = Append(log, Ev("linear assigned", "none", TRUE))
                      /\ ExitBeforeCall(0)
                 ELSE LET selectedTask == tasks[1]
                          prStatus == IF ~selectedTask.hasExistingPR THEN "no PR"
                                      ELSE IF selectedTask.hasPRClosed THEN "PR Closed"
                                      ELSE "PR Open"
                          prompts == <<Ev("linear assigned", prStatus, TRUE),
                                       Ev("prompt", "searchTerm", TRUE),
                                       Ev("prompt", "sortBy", TRUE)>>
                      IN  IF selectedTask.hasPRClosed
                          THEN \* the choice is disabled: the list prompt throws, or
                               \* it returns the task nevertheless and the check
                               \* after it ends the command
                               \E returned \in BOOLEAN :
                                   /\ log' = prompts
                                                \o <<Ev("prompt", "selectedTaskId", returned)>>
                                   /\ ExitBeforeCall(1)
                          ELSE IF selectedTask.hasExistingPR
                          THEN \E confirmCreate \in BOOLEAN :
                                   /\ log' = prompts
                                                \o <<Ev("prompt", "selectedTaskId", TRUE),
                                                     Ev("prompt", "confirmCreate", confirmCreate)>>
                                   /\ IF confirmCreate
                                      THEN Call(CreateOptions(selectedTask.taskId))
                                           /\ proc' = proc
                                      ELSE ExitBeforeCall(0)
                          ELSE /\ log' = prompts \o <<Ev("prompt", "selectedTaskId", TRUE)>>
                               /\ Call(CreateOptions(selectedTask.taskId))
                               /\ proc' = proc
    /\ UNCHANGED <<cmd, oauth, world, extractedTaskId, task, branchName, prTitle,
                   stages, requests, result>>

(***************************************************************************)
(* pr: the orchestrator createPullRequest, up to the branch                *)
(***************************************************************************)
\* faulty variant: a valid type is taken as the caller wrote it
ValidateTypeKeepsCase ==
    /\ pc = "start"
    /\ IF toLowerCase(type) \notin ValidTypes
       THEN \E newType \in ValidTypes :
                /\ type' = newType
                /\ log' = Append(log, Ev("prompt", "newType", TRUE))
       ELSE /\ type' = type
            /\ log' = log
    /\ pc' = "parse"
    /\ UNCHANGED <<cmd, oauth, opts, world, extractedTaskId, exactBranchName, task, module,
                   branchName, prTitle, stages, requests, result, proc>>

\* the type is validated; an unknown one is replaced at a list prompt
ValidateType ==
    /\ pc = "start"
    /\ IF toLowerCase(type) \notin ValidTypes
       THEN \E newType \in ValidTypes :
                /\ type' = newType
                /\ log' = Append(log, Ev("prompt", "newType", TRUE))
       ELSE /\ type' = toLowerCase(type)
            /\ log' = log
    /\ pc' = "parse"
    /\ UNCHANGED <<cmd, oauth, opts, world, extractedTaskId, exactBranchName, task, module,
                   branchName, prTitle, stages, requests, result, proc>>

\* a faulty variant that looks for the slash only
IsBranchLikeSlashOnly(taskId) ==
    includes(taskId, "/")

\* the condition under which the reference is taken for a branch name
IsBranchLike(taskId) ==
    includes(taskId, "/") \/ (includes(taskId, "-") /\ ~validateTaskId(taskId))

ParseInput ==
    /\ pc = "parse"
    /\ stages' = Append(stages, "ParseInput")
    /\ IF IsBranchLike(opts.taskId)
       THEN LET extracted == extractTaskIdFromBranchName(opts.taskId)
            IN  IF extracted # Null
                THEN /\ extractedTaskId' = extracted
                     /\ exactBranchName' = TRUE
                     /\ pc' = "assign"
                     /\ result' = result /\ proc' = proc
                ELSE /\ Throw(<<"Could not extract a valid Linear task ID">>)
                     /\ UNCHANGED <<extractedTaskId, exactBranchName>>
       ELSE /\ extractedTaskId' = opts.taskId
            /\ exactBranchName' = opts.useExactBranchName
            /\ pc' = "assign"
            /\ result' = result /\ proc' = proc
    /\ UNCHANGED <<cmd, oauth, opts, world, type, task, module, branchName, prTitle, log, requests>>

CheckAssignment ==
    /\ pc = "assign"
    /\ IF opts.enforceAssignment
       THEN \E out \in getTask(extractedTaskId, TRUE) :
                /\ stages' = Append(stages, "CheckAssignment")
                /\ log' = log \o out.events
                /\ IF isTaskAssignedToCurrentUser(out)
                   THEN pc' = "resolve" /\ result' = result /\ proc' = proc
                   ELSE Throw(<<"Failed to create PR", "Task is not assigned to you">>)
       ELSE /\ pc' = "resolve"
            /\ UNCHANGED <<stages, log, result, proc>>
    /\ UNCHANGED <<cmd, oauth, opts, world, locals, requests>>

\* a faulty variant that goes on without the issue when the lookup failed
ResolveIssueGoesOn ==
    /\ pc = "resolve"
    /\ stages' = Append(stages, "ResolveIssue")
    /\ \E out \in getTask(extractedTaskId, FALSE) :
           /\ log' = log \o out.events
           /\ task' = out.task
           /\ pc' = "module"
           /\ result' = result /\ proc' = proc
    /\ UNCHANGED <<cmd, oauth, opts, world, type, extractedTaskId, exactBranchName, module,
                   branchName, prTitle, requests>>

ResolveIssue ==
    /\ pc = "resolve"
    /\ stages' = Append(stages, "ResolveIssue")
    /\ \E out \in getTask(extractedTaskId, FALSE) :
           /\ log' = log \o out.events
           /\ IF out.ok
              THEN task' = out.task /\ pc' = "module" /\ result' = result /\ proc' = proc
              ELSE task' = task /\ Throw(<<"Failed to create PR">> \o out.msgs)
    /\ UNCHANGED <<cmd, oauth, opts, world, type, extractedTaskId, exactBranchName, module,
                   branchName, prTitle, requests>>


\* faulty variant: the offer is accepted and the module stays as it was passed
ResolveModuleKeepsInvalid ==
    /\ pc = "module"
    /\ stages' = Append(stages, "ResolveModule")
    /\ IF Falsy(module) /\ ~Falsy(task.projectName)
       THEN /\ module' = formatScopeString(task.projectName)
            /\ log' = log
       ELSE IF Falsy(module)
       THEN \E answer \in ModuleAnswers :
                /\ module' = answer
                /\ log' = Append(log, Ev("prompt", "module", TRUE))
       ELSE IF ~validateScope(module)
       THEN \E useFormatted \in BOOLEAN :
                IF useFormatted
                THEN /\ module' = module
                     /\ log' = Append(log, Ev("prompt", "useFormatted", TRUE))
                ELSE \E newModule \in ModuleAnswers :
                         /\ module' = newModule
                         /\ log' = log \o <<Ev("prompt", "useFormatted", FALSE),
                                            Ev("prompt", "newModule", TRUE)>>
       ELSE /\ module' = module
            /\ log' = log
    /\ pc' = "branch"
    /\ UNCHANGED <<cmd, oauth, opts, world, type, extractedTaskId, exactBranchName, task,
                   branchName, prTitle, requests, result, proc>>

ResolveModule ==
    /\ pc = "module"
    /\ stages' = Append(stages, "ResolveModule")
    /\ IF Falsy(module) /\ ~Falsy(task.projectName)
       THEN /\ module' = formatScopeString(task.projectName)
            /\ log' = log
       ELSE IF Falsy(module)
       THEN \E answer \in ModuleAnswers :
                /\ module' = answer
                /\ log' = Append(log, Ev("prompt", "module", TRUE))
       ELSE IF ~validateScope(module)
       THEN \E useFormatted \in BOOLEAN :
                IF useFormatted
                THEN /\ module' = formatScopeString(module)
                     /\ log' = Append(log, Ev("prompt", "useFormatted", TRUE))
                ELSE \E newModule \in ModuleAnswers :
                         /\ module' = newModule
                         /\ log' = log \o <<Ev("prompt", "useFormatted", FALSE),
                                            Ev("prompt", "newModule", TRUE)>>
       ELSE /\ module' = module
            /\ log' = log
    /\ pc' = "branch"
    /\ UNCHANGED <<cmd, oauth, opts, world, type, extractedTaskId, exactBranchName, task,
                   branchName, prTitle, requests, result, proc>>

\* faulty variant: createBranch is called whatever branch is checked out
DetermineBranchAlways ==
    /\ pc = "branch"
    /\ stages' = Append(stages, "ReconcileBranch")
    /\ branchName' = IF exactBranchName THEN opts.taskId
                     ELSE createBranchName(task.taskId, task.title)
    /\ IF repo.isRepo
       THEN /\ log' = Append(log, Ev("git branch --show-current", "", TRUE))
            /\ pc' = "cb_start"
            /\ result' = result /\ proc' = proc
       ELSE /\ log' = Append(log, Ev("git branch --show-current", "", FALSE))
            /\ Throw(<<"Failed to create PR", "Git command failed">>)
    /\ UNCHANGED <<cmd, oauth, opts, world, type, extractedTaskId, exactBranchName, task, module,
                   prTitle, requests>>

\* the branch name is chosen and compared with the branch checked out
DetermineBranch ==
    /\ pc = "branch"
    /\ stages' = Append(stages, "ReconcileBranch")
    /\ branchName' = IF exactBranchName THEN opts.taskId
                     ELSE createBranchName(task.taskId, task.title)
    /\ IF repo.isRepo
       THEN /\ log' = Append(log, Ev("git branch --show-current", "", TRUE))
            /\ pc' = IF repo.currentBranch # branchName' THEN "cb_start" ELSE "title"
            /\ result' = result /\ proc' = proc
       ELSE /\ log' = Append(log, Ev("git branch --show-current", "", FALSE))
            /\ Throw(<<"Failed to create PR", "Git command failed">>)
    /\ UNCHANGED <<cmd, oauth, opts, world, type, extractedTaskId, exactBranchName, task, module,
                   prTitle, requests>>

(***************************************************************************)
(* github: createBranch                                                    *)
(***************************************************************************)
\* the outcomes of a command: it fails when its precondition does not hold,
\* and it may fail for a reason outside the model (the network, the work tree)
Outcomes(precondition) ==
    IF ~precondition THEN {FALSE}
    ELSE IF repo.flaky THEN {TRUE, FALSE}
    ELSE {TRUE}

\* createBranch's and createPullRequest's parameter baseBranch, at its default
baseBranch == config.defaultBranch

BranchFailed == <<"Failed to create PR", "Failed to create branch", "Git command failed">>

\* faulty variant: createBranch stores the base branch development
CB_FrameStoresBase ==
    /\ config' = [config EXCEPT !.defaultBranch = Development, !.githubRepo = FALSE]
    /\ UNCHANGED <<cmd, oauth, opts, issue, locals, stages, requests>>

\* the other variables, which no step of createBranch writes
CB_Frame == UNCHANGED <<cmd, oauth, opts, issue, config, locals, stages, requests>>

\* git checkout -b "<branchName>" <from>: the branch is created at the start
\* point and checked out
CheckedOutNew(ahead) ==
    [repo EXCEPT !.localBranches = @ \cup {branchName},
                 !.currentBranch = branchName,
                 !.ahead = ahead]

CB_Start ==
    /\ pc = "cb_start"
    /\ IF repo.isRepo
       THEN pc' = "cb_local" /\ result' = result /\ proc' = proc
       ELSE Throw(<<"Failed to create PR", "Not in a git repository">>)
    /\ UNCHANGED <<repo, log>>
    /\ CB_Frame

\* a faulty variant that never finds the branch locally
CB_LocalNeverFound ==
    /\ pc = "cb_local"
    /\ log' = Append(log, Ev("git branch --list", "target", TRUE))
    /\ pc' = "cb_remote"
    /\ UNCHANGED <<repo, result, proc>>
    /\ CB_Frame

\* branchExistsLocally(branchName): git branch --list reads the repository
\* only, and isGitRepository has just succeeded, so the listing is taken to succeed
CB_Local ==
    /\ pc = "cb_local"
    /\ log' = Append(log, Ev("git branch --list", "target", TRUE))
    /\ pc' = IF branchName \in repo.localBranches THEN "cb_checkout_local" ELSE "cb_remote"
    /\ UNCHANGED <<repo, result, proc>>
    /\ CB_Frame

CB_CheckoutLocal ==
    /\ pc = "cb_checkout_local"
    /\ \E ok \in Outcomes(TRUE) :
           /\ log' = Append(log, Ev("git checkout", "target", ok))
           /\ IF ok
              THEN /\ repo' = [repo EXCEPT !.currentBranch = branchName]
                   /\ pc' = "title"
                   /\ result' = result /\ proc' = proc
              ELSE repo' = repo /\ Throw(BranchFailed)
    /\ CB_Frame

\* branchExistsOnRemote(branchName): git fetch, then git branch -r
CB_Remote ==
    /\ pc = "cb_remote"
    /\ \E ok \in Outcomes(TRUE) :
           /\ repo' = IF ok THEN [repo EXCEPT !.remoteRefs = @ \cup repo.remote] ELSE repo
           /\ log' = IF ok
                     THEN log \o <<Ev("git fetch", "", TRUE), Ev("git branch -r", "", TRUE)>>
                     ELSE Append(log, Ev("git fetch", "", FALSE))
           /\ pc' = IF ok /\ branchName \in repo'.remoteRefs
                    THEN "cb_checkout_remote" ELSE "cb_fetch_base"
    /\ result' = result /\ proc' = proc
    /\ CB_Frame

CB_CheckoutRemote ==
    /\ pc = "cb_checkout_remote"
    /\ \E ok \in Outcomes(branchName \in repo.remoteRefs /\ branchName \notin repo.localBranches) :
           /\ log' = Append(log, Ev("git checkout -b", "origin/target", ok))
           /\ IF ok
              THEN /\ repo' = CheckedOutNew(repo.ahead)
                   /\ pc' = "title"
                   /\ result' = result /\ proc' = proc
              ELSE repo' = repo /\ Throw(BranchFailed)
    /\ CB_Frame

\* git fetch origin <baseBranch>
CB_FetchBase ==
    /\ pc = "cb_fetch_base"
    /\ \E ok \in Outcomes(baseBranch \in repo.remote) :
           /\ log' = Append(log, Ev("git fetch origin", "base", ok))
           /\ repo' = IF ok THEN [repo EXCEPT !.remoteRefs = @ \cup {baseBranch}] ELSE repo
           /\ pc' = IF ok THEN "cb_ensure_base" ELSE "cb_alt_remote"
    /\ result' = result /\ proc' = proc
    /\ CB_Frame

\* a local copy of the base branch is created, or the existing one updated
CB_EnsureBase ==
    /\ pc = "cb_ensure_base"
    /\ IF baseBranch \notin repo.localBranches
       THEN \E ok \in Outcomes(baseBranch \in repo.remoteRefs) :
                /\ log' = log \o <<Ev("git branch --list", "base", TRUE),
                                   Ev("git branch", "origin/base", ok)>>
                /\ repo' = IF ok THEN [repo EXCEPT !.localBranches = @ \cup {baseBranch}]
                           ELSE repo
                /\ pc' = IF ok THEN "cb_create" ELSE "cb_alt_remote"
       ELSE IF repo.currentBranch = baseBranch
       THEN \E ok \in Outcomes(TRUE) :
                /\ log' = log \o <<Ev("git branch --list", "base", TRUE),
                                   Ev("git branch --show-current", "", TRUE),
                                   Ev("git pull origin", "", ok)>>
                /\ pc' = IF ok THEN "cb_create" ELSE "cb_alt_remote"
                /\ repo' = repo
       ELSE \E ok \in Outcomes(baseBranch \in repo.remote) :
                /\ log' = log \o <<Ev("git branch --list", "base", TRUE),
                                   Ev("git branch --show-current", "", TRUE),
                                   Ev("git fetch origin", "base:base", ok)>>
                /\ pc' = IF ok THEN "cb_create" ELSE "cb_alt_remote"
                /\ repo' = repo
    /\ result' = result /\ proc' = proc
    /\ CB_Frame

\* git checkout -b "<branchName>" <from>, one attempt: on success the branch
\* exists and createBranch returns, on failure the run goes on at `next`
CreateFrom(from, precondition, ahead, next) ==
    \E ok \in Outcomes(precondition /\ branchName \notin repo.localBranches) :
        /\ log' = Append(log, Ev("git checkout -b", from, ok))
        /\ repo' = IF ok THEN CheckedOutNew(ahead) ELSE repo
        /\ pc' = IF ok THEN "title" ELSE next
        /\ result' = result /\ proc' = proc
        /\ CB_Frame

AheadOfBase == [repo.ahead EXCEPT ![baseBranch] = 0]

\* the new branch from the updated base
CB_Create ==
    /\ pc = "cb_create"
    /\ CreateFrom("origin/base", baseBranch \in repo.remoteRefs, AheadOfBase, "cb_alt_remote")

\* a faulty variant that goes from the remote base ref straight to HEAD
CB_AltRemoteSkipsLocal ==
    /\ pc = "cb_alt_remote"
    /\ CreateFrom("origin/base", baseBranch \in repo.remoteRefs, AheadOfBase, "cb_alt_head")

\* the alternatives, tried when the block above raised
CB_AltRemote ==
    /\ pc = "cb_alt_remote"
    /\ CreateFrom("origin/base", baseBranch \in repo.remoteRefs, AheadOfBase, "cb_alt_local")

\* a faulty variant that creates the branch from HEAD in place of the local base
CB_AltLocalFromHead ==
    /\ pc = "cb_alt_local"
    /\ CreateFrom("HEAD", TRUE, repo.ahead, "cb_alt_head")

CB_AltLocal ==
    /\ pc = "cb_alt_local"
    /\ CreateFrom("base", baseBranch \in repo.localBranches, repo.ahead, "cb_alt_head")

CB_AltHead ==
    /\ pc = "cb_alt_head"
    /\ \E ok \in Outcomes(branchName \notin repo.localBranches) :
           /\ log' = Append(log, Ev("git checkout -b", "HEAD", ok))
           /\ IF ok
              THEN /\ repo' = CheckedOutNew(repo.ahead)
                   /\ pc' = "title"
                   /\ result' = result /\ proc' = proc
              ELSE repo' = repo /\ Throw(BranchFailed)
    /\ CB_Frame

(***************************************************************************)
(* pr: the title; github: the gateway's createPullRequest                  *)
(***************************************************************************)
\* faulty variant: an empty module is not replaced by 'general'
ComposeTitleNoFallback ==
    /\ pc = "title"
    /\ stages' = Append(stages, "ComposeTitle")
    /\ prTitle' = createPRTitle(type, IF module = Null THEN General ELSE module,
                                toUpperCase(task.taskId), task.title)
    /\ pc' = "gh_client"
    /\ UNCHANGED <<cmd, oauth, opts, world, type, extractedTaskId, exactBranchName, task, module,
                   branchName, log, requests, result, proc>>

ComposeTitle ==
    /\ pc = "title"
    /\ stages' = Append(stages, "ComposeTitle")
    /\ prTitle' = createPRTitle(type, IF Falsy(module) THEN General ELSE module,
                                toUpperCase(task.taskId), task.title)
    /\ pc' = "gh_client"
    /\ UNCHANGED <<cmd, oauth, opts, world, type, extractedTaskId, exactBranchName, task, module,
                   branchName, log, requests, result, proc>>

\* the other variables, which no step of the gateway writes
GH_Frame == UNCHANGED <<cmd, oauth, opts, issue, config, locals>>

\* getGithubClient and the configured repository
GH_Client ==
    /\ pc = "gh_client"
    /\ stages' = Append(stages, "PushAndOpenPR")
    /\ IF ~config.githubToken
       THEN Throw(<<"Failed to create PR", "GitHub is not set up">>)
       ELSE IF ~config.githubRepo
       THEN Throw(<<"Failed to create PR", "GitHub repository not configured">>)
       ELSE pc' = "gh_sample" /\ result' = result /\ proc' = proc
    /\ UNCHANGED <<repo, log, requests>>
    /\ GH_Frame

\* the ref createSampleCommitIfNeeded counts the commits of HEAD against
SampleCommitBase == Development

\* createSampleCommitIfNeeded
GH_SampleCommit ==
    /\ pc = "gh_sample"
    /\ LET counted == SampleCommitBase \in repo.remoteRefs
           revList == Ev("git rev-list --count", "", counted)
       IN  IF counted /\ repo.ahead[SampleCommitBase] > 0
           THEN /\ log' = Append(log, revList)
                /\ repo' = repo
           ELSE \E ok \in Outcomes(TRUE) :
                    /\ log' = log \o <<revList, Ev("git commit --allow-empty", "", ok)>>
                    /\ repo' = IF ok
                               THEN [repo EXCEPT !.ahead = [b \in BaseNames |-> @[b] + 1]]
                               ELSE repo
    /\ pc' = "gh_push"
    /\ UNCHANGED <<stages, requests, result, proc>>
    /\ GH_Frame

\* a faulty variant in which a failed push ends the run
GH_PushFatal ==
    /\ pc = "gh_push"
    /\ \E ok \in Outcomes(branchName \in repo.localBranches) :
           /\ log' = Append(log, Ev("git push", "", ok))
           /\ IF ok
              THEN /\ repo' = [repo EXCEPT !.remote = @ \cup {branchName},
                                           !.remoteRefs = @ \cup {branchName}]
                   /\ pc' = "gh_repo"
                   /\ result' = result /\ proc' = proc
              ELSE /\ repo' = repo
                   /\ Throw(<<"Failed to create PR", "Failed to create pull request",
                              "Git command failed">>)
    /\ UNCHANGED <<stages, requests>>
    /\ GH_Frame

\* git push -u origin "<branch>"; a failure is logged only
GH_Push ==
    /\ pc = "gh_push"
    /\ \E ok \in Outcomes(branchName \in repo.localBranches) :
           /\ log' = Append(log, Ev("git push", "", ok))
           /\ repo' = IF ok
                      THEN [repo EXCEPT !.remote = @ \cup {branchName},
                                        !.remoteRefs = @ \cup {branchName}]
                      ELSE repo
    /\ pc' = "gh_repo"
    /\ UNCHANGED <<stages, requests, result, proc>>
    /\ GH_Frame

\* octokit.rest.repos.get
GH_RepoInfo ==
    /\ pc = "gh_repo"
    /\ \E ok \in Outcomes(TRUE) :
           /\ log' = Append(log, Ev("GET repo", "", ok))
           /\ pc' = IF ok THEN "gh_create" ELSE "gh_fallback"
    /\ UNCHANGED <<repo, stages, requests, result, proc>>
    /\ GH_Frame

\* faulty variant: only the owner-qualified request asks for a draft
PullRequestDraftOnce(head, ok) ==
    [head |-> head, base |-> baseBranch, title |-> prTitle,
     draft |-> includes(head, ":"), ok |-> ok]

\* a PR-creation request and its outcome; the host accepts none whose head
\* branch it does not have
PullRequest(head, ok) ==
    [head |-> head, base |-> baseBranch, title |-> prTitle, draft |-> TRUE, ok |-> ok]
HostOutcomes == Outcomes(branchName \in repo.remote)

PullRequestFailed == <<"Failed to create PR", "Failed to create pull request", "request failed">>

\* a faulty variant that gives up when the owner-qualified request failed
GH_CreateNoRetry ==
    /\ pc = "gh_create"
    /\ \E ok \in HostOutcomes :
           /\ requests' = Append(requests, PullRequest(Owner \o <<":">> \o branchName, ok))
           /\ log' = Append(log, Ev("POST pulls", "qualified", ok))
           /\ IF ok
              THEN pc' = "annotate" /\ result' = result /\ proc' = proc
              ELSE Throw(PullRequestFailed)
    /\ UNCHANGED <<repo, stages>>
    /\ GH_Frame

\* the request with the owner-qualified head reference
GH_Create ==
    /\ pc = "gh_create"
    /\ \E ok \in HostOutcomes :
           /\ requests' = Append(requests, PullRequest(Owner \o <<":">> \o branchName, ok))
           /\ log' = Append(log, Ev("POST pulls", "qualified", ok))
           /\ pc' = IF ok THEN "annotate" ELSE "gh_fallback"
    /\ UNCHANGED <<repo, stages, result, proc>>
    /\ GH_Frame

\* the fallback: the request with the bare branch name
GH_Fallback ==
    /\ pc = "gh_fallback"
    /\ \E ok \in HostOutcomes :
           /\ requests' = Append(requests, PullRequest(branchName, ok))
           /\ log' = Append(log, Ev("POST pulls", "bare", ok))
           /\ IF ok
              THEN pc' = "annotate" /\ result' = result /\ proc' = proc
              ELSE Throw(PullRequestFailed)
    /\ UNCHANGED <<repo, stages>>
    /\ GH_Frame

\* the call of attachPRToTask is commented out: success is logged only
Annotate ==
    /\ pc = "annotate"
    /\ stages' = Append(stages, "Annotate")
    /\ pc' = "done"
    /\ result' = [status |-> "ok", msgs |-> <<>>]
    /\ proc' = IF cmd.name \in Commands THEN Finished ELSE proc
    /\ UNCHANGED <<cmd, oauth, opts, world, locals, log, requests>>

(***************************************************************************)
(* cli: the setup and config-oauth commands, with setupLinear (linear) and *)
(* setupGithub (github)                                                    *)
(***************************************************************************)
\* the command's handler returns without an error
Return ==
    /\ pc' = "returned"
    /\ result' = [status |-> "returned", msgs |-> <<>>]

\* the variables no step of setup or config-oauth writes
SetupFrame == UNCHANGED <<cmd, opts, issue, repo, locals, stages, requests>>

\* config.set of the token of `service` (with isApiKey or githubUsername)
Saved(service) == Ev("config set", service, TRUE)

\* setup --linear-api-key <key> --github-token <token>: setupLinearWithKey and
\* setupGithubWithToken, each for the flag that is given
SetupWithFlags ==
    /\ pc = "setup"
    /\ cmd.args.linearApiKey \/ cmd.args.githubToken
    /\ \E linearOk \in BOOLEAN, githubOk \in BOOLEAN :
           LET viewer == IF cmd.args.linearApiKey
                         THEN <<Ev("linear verify", "", linearOk)>>
                              \o (IF linearOk THEN <<Saved("linear")>> ELSE <<>>)
                         ELSE <<>>
               user == IF cmd.args.githubToken
                       THEN <<Ev("github verify", "", githubOk)>>
                            \o (IF githubOk THEN <<Saved("github")>> ELSE <<>>)
                       ELSE <<>>
               withLinear == IF cmd.args.linearApiKey
                             THEN [config EXCEPT !.linearAccessToken = TRUE,
                                                 !.isApiKey = TRUE]
                             ELSE config
               withGithub == IF cmd.args.githubToken
                             THEN [withLinear EXCEPT !.githubToken = TRUE,
                                                     !.githubUsername = TRUE,
                                                     !.defaultBranch = Development]
                             ELSE withLinear
           IN  IF cmd.args.linearApiKey /\ ~linearOk
               THEN /\ log' = log \o viewer
                    /\ config' = config
                    /\ Throw(<<"Failed to connect to Linear with provided API key">>)
               ELSE IF cmd.args.githubToken /\ ~githubOk
               THEN /\ log' = log \o viewer \o user
                    /\ config' = withLinear
                    /\ Throw(<<"Failed to connect to GitHub with provided token">>)
               ELSE /\ log' = log \o viewer \o user
                    /\ config' = withGithub
                    /\ Return
                    /\ proc' = proc
    /\ oauth' = oauth
    /\ SetupFrame

\* setup without flags, first half: setupLinear asks for the method; with an
\* API key setupWithApiKey verifies and stores it, with OAuth setupWithOAuth
\* calls performOAuth2Flow, which opens the listener and arms the timer
SetupLinear ==
    /\ pc = "setup"
    /\ ~(cmd.args.linearApiKey \/ cmd.args.githubToken)
    /\ \E authType \in {"apiKey", "oauth"} :
           IF authType = "apiKey"
           THEN \E ok \in BOOLEAN :
                    /\ log' = log \o <<Ev("prompt", "authType", TRUE),
                                       Ev("prompt", "token", TRUE),
                                       Ev("linear verify", "", ok)>>
                                  \o (IF ok THEN <<Saved("linear")>> ELSE <<>>)
                    /\ oauth' = oauth
                    /\ IF ok
                       THEN /\ config' = [config EXCEPT !.linearAccessToken = TRUE,
                                                        !.isApiKey = TRUE]
                            /\ pc' = "setup_github"
                            /\ result' = result /\ proc' = proc
                       ELSE /\ config' = config
                            /\ Throw(<<"Failed to connect to Linear">>)
           ELSE /\ log' = Append(log, Ev("prompt", "authType", TRUE))
                /\ config' = config
                /\ IF ~(config.linearOAuthClientId /\ config.linearOAuthClientSecret)
                   THEN /\ oauth' = oauth
                        /\ Throw(<<"OAuth credentials not configured">>)
                   ELSE /\ oauth' = [NoFlow EXCEPT !.server = "listening",
                                                   !.timer = "armed",
                                                   !.promise = "pending"]
                        /\ pc' = "oauth"
                        /\ result' = result /\ proc' = proc
    /\ SetupFrame

\* server.close()
Closed(flow) == [flow EXCEPT !.server = "closed"]

\* faulty variant: every call of resolve or reject settles the promise anew
SettledByLastCall(flow, fn, why, by) ==
    [flow EXCEPT !.calls = Append(@, [fn |-> fn, why |-> why, by |-> by]),
                 !.promise = IF fn = "resolve" THEN "resolved" ELSE "rejected",
                 !.reason = why]

\* resolve(...) or reject(...) of the flow's promise, called by `by`: only the
\* first call settles the promise
Settled(flow, fn, why, by) ==
    [flow EXCEPT !.calls = Append(@, [fn |-> fn, why |-> why, by |-> by]),
                 !.promise = IF @ = "pending"
                             THEN (IF fn = "resolve" THEN "resolved" ELSE "rejected")
                             ELSE @,
                 !.reason = IF flow.promise = "pending" THEN why ELSE @]

\* the requests that can reach the listener: one that url.parse rejects, one
\* for another path, and GET /callback with or without the generated state,
\* an error parameter and a code
Requests ==
    {[parses |-> FALSE, pathname |-> "", state |-> "", error |-> FALSE, code |-> FALSE],
     [parses |-> TRUE, pathname |-> "/favicon.ico", state |-> "", error |-> FALSE,
      code |-> FALSE]}
    \cup [parses : {TRUE}, pathname : {"/callback"}, state : {"generated", "other"},
          error : BOOLEAN, code : BOOLEAN]

\* the request is answered with `response` (0: not at all) and its token
\* request is in the state `exchange`
Answered(flow, req, response, exchange) ==
    [flow EXCEPT !.callbacks = Append(@, [req |-> req, response |-> response,
                                          exchange |-> exchange])]

\* faulty variant: the handler does not compare the state
HandlerNoStateCheck(flow, req) ==
    LET n == Len(flow.callbacks) + 1
        Refused(why) == Settled(Closed(Answered(flow, req, 200, "none")), "reject", why, n)
    IN  IF ~req.parses
        THEN Settled(Closed(Answered(flow, req, 500, "none")), "reject", "request error", n)
        ELSE IF req.pathname # "/callback" THEN Answered(flow, req, 0, "none")
        ELSE IF req.error THEN Refused("Authorization error")
        ELSE IF ~req.code THEN Refused("No authorization code returned")
        ELSE Answered(flow, req, 200, "pending")

\* the listener's request handler, up to the token request or to its end: the
\* success page is written as soon as the path is /callback
Handler(flow, req) ==
    LET n == Len(flow.callbacks) + 1
        Refused(why) == Settled(Closed(Answered(flow, req, 200, "none")), "reject", why, n)
    IN  IF ~req.parses
        THEN Settled(Closed(Answered(flow, req, 500, "none")), "reject", "request error", n)
        ELSE IF req.pathname # "/callback" THEN Answered(flow, req, 0, "none")
        ELSE IF req.state # "generated" THEN Refused("Invalid state parameter")
        ELSE IF req.error THEN Refused("Authorization error")
        ELSE IF ~req.code THEN Refused("No authorization code returned")
        ELSE Answered(flow, req, 200, "pending")

\* a request reaches the listener
OA_Request ==
    /\ ~proc.exited
    /\ oauth.server = "listening"
    /\ Len(oauth.callbacks) < MaxCallbacks
    /\ \E req \in Requests : oauth' = Handler(oauth, req)
    /\ UNCHANGED <<pc, cmd, opts, world, locals, stages, log, requests, result, proc>>

\* the token endpoint answers the request of callback n, or the request fails
OA_Exchange ==
    /\ ~proc.exited
    /\ \E n \in 1..Len(oauth.callbacks), out \in {"ok", "refused", "failed"} :
           /\ oauth.callbacks[n].exchange = "pending"
           /\ oauth' = Settled(Closed([oauth EXCEPT !.callbacks[n].exchange = out]),
                               IF out = "ok" THEN "resolve" ELSE "reject",
                               IF out = "ok" THEN "access_token"
                               ELSE "Token exchange failed", n)
    /\ UNCHANGED <<pc, cmd, opts, world, locals, stages, log, requests, result, proc>>

\* the 5-minute timer, which nothing clears, fires
OA_Timeout ==
    /\ ~proc.exited
    /\ oauth.timer = "armed"
    /\ oauth' = Settled(Closed([oauth EXCEPT !.timer = "fired"]), "reject",
                        "Authentication timed out after 5 minutes", 0)
    /\ UNCHANGED <<pc, cmd, opts, world, locals, stages, log, requests, result, proc>>

\* faulty variant: the token is stored as soon as the flow has delivered it
SetupWithOAuthStoresFirst ==
    /\ pc = "oauth"
    /\ oauth.promise # "pending"
    /\ IF oauth.promise = "rejected"
       THEN /\ log' = log
            /\ config' = config
            /\ Throw(<<"Failed to connect to Linear">>)
       ELSE \E ok \in BOOLEAN :
                /\ log' = log \o <<Saved("linear"), Ev("linear verify", "", ok)>>
                /\ config' = [config EXCEPT !.linearAccessToken = TRUE,
                                            !.isApiKey = FALSE]
                /\ IF ok
                   THEN /\ pc' = "setup_github"
                        /\ result' = result /\ proc' = proc
                   ELSE Throw(<<"Failed to connect to Linear">>)
    /\ oauth' = oauth
    /\ SetupFrame

\* setupWithOAuth after the flow has settled: the token is verified and stored
SetupWithOAuth ==
    /\ pc = "oauth"
    /\ oauth.promise # "pending"
    /\ IF oauth.promise = "rejected"
       THEN /\ log' = log
            /\ config' = config
            /\ Throw(<<"Failed to connect to Linear">>)
       ELSE \E ok \in BOOLEAN :
                /\ log' = log \o <<Ev("linear verify", "", ok)>>
                               \o (IF ok THEN <<Saved("linear")>> ELSE <<>>)
                /\ IF ok
                   THEN /\ config' = [config EXCEPT !.linearAccessToken = TRUE,
                                                    !.isApiKey = FALSE]
                        /\ pc' = "setup_github"
                        /\ result' = result /\ proc' = proc
                   ELSE /\ config' = config
                        /\ Throw(<<"Failed to connect to Linear">>)
    /\ oauth' = oauth
    /\ SetupFrame

\* setup without flags, second half: setupGithub verifies and stores the
\* token, then the repository (detected or asked for) and the default branch
SetupGithub ==
    /\ pc = "setup_github"
    /\ \E ok \in BOOLEAN, answered \in BOOLEAN :
           LET withToken == [config EXCEPT !.githubToken = TRUE, !.githubUsername = TRUE]
           IN  /\ log' = log \o <<Ev("prompt", "token", TRUE), Ev("github verify", "", ok)>>
                             \o (IF ok THEN <<Saved("github"),
                                                Ev("prompt", "repoPath", answered)>>
                                 ELSE <<>>)
               /\ IF ~ok
                  THEN config' = config /\ Throw(<<"Failed to connect to GitHub">>)
                  ELSE IF ~answered
                  THEN config' = withToken /\ Throw(<<"Failed to connect to GitHub">>)
                  ELSE /\ config' = [withToken EXCEPT !.githubRepo = TRUE,
                                                      !.defaultBranch = Development]
                       /\ Return
                       /\ proc' = proc
    /\ oauth' = oauth
    /\ SetupFrame

\* config-oauth: the client id and secret, from the flags or from the prompts
ConfigOAuth ==
    /\ pc = "config-oauth"
    /\ \E answered \in BOOLEAN :
           LET asked == ~(cmd.args.clientId /\ cmd.args.clientSecret)
           IN  /\ log' = IF asked THEN Append(log, Ev("prompt", "clientId", answered))
                         ELSE log
               /\ IF asked /\ ~answered
                  THEN config' = config /\ Throw(<<"prompt failed">>)
                  ELSE /\ config' = [config EXCEPT !.linearOAuthClientId = TRUE,
                                                   !.linearOAuthClientSecret = TRUE]
                       /\ Return
                       /\ proc' = proc
    /\ oauth' = oauth
    /\ SetupFrame

\* the handler has returned and nothing is pending: the process ends by itself
EventLoopDrains ==
    /\ pc = "returned"
    /\ ~proc.exited
    /\ oauth.timer # "armed"
    /\ \A n \in 1..Len(oauth.callbacks) : oauth.callbacks[n].exchange # "pending"
    /\ proc' = Finished
    /\ UNCHANGED <<pc, cmd, oauth, opts, world, locals, stages, log, requests, result>>

(***************************************************************************)
(* linear: attachPRToTask                                                  *)
(***************************************************************************)
\* attachPRToTask(taskId, prUrl): getLinearClient is awaited before the try
\* block, the lookup and the comment request inside it
attachPRToTask ==
    /\ pc = "attach"
    /\ IF ~config.linearAccessToken
       THEN /\ pc' = "rejected"
            /\ result' = [status |-> "rejected", msgs |-> <<"Linear is not set up">>]
            /\ log' = log
       ELSE /\ pc' = "attached"
            /\ result' = [status |-> "resolved", msgs |-> <<>>]
            /\ \E out \in getTask(cmd.args.taskId, FALSE) :
                   IF ~out.ok
                   THEN log' = log \o out.events \o <<Ev("warn", "Could not add PR link", TRUE)>>
                   ELSE \E sent \in Outcomes(TRUE), success \in Outcomes(TRUE) :
                            log' = log \o out.events
                                       \o <<Ev("linear comment", cmd.args.prUrl, sent)>>
                                       \o (IF ~sent
                                           THEN <<Ev("warn", "Could not add PR link", TRUE)>>
                                           ELSE IF ~success
                                           THEN <<Ev("warn", "Comment creation may have failed",
                                                     TRUE)>>
                                           ELSE <<>>)
    /\ UNCHANGED <<cmd, oauth, opts, world, locals, stages, requests, proc>>

(***************************************************************************)
(* utils: calls of the exported functions                                  *)
(***************************************************************************)
\* the call returns v to its caller; nothing else is read or written
UtilReturns(v) ==
    /\ pc' = "value"
    /\ result' = [status |-> "value", msgs |-> <<>>, value |-> v]
    /\ UNCHANGED <<cmd, oauth, opts, world, locals, stages, log, requests, proc>>

CallExtractTaskId ==
    /\ pc = "utils"
    /\ cmd.args.fn = "extractTaskIdFromBranchName"
    /\ UtilReturns(extractTaskIdFromBranchName(cmd.args.input))

CallFormatScope ==
    /\ pc = "utils"
    /\ cmd.args.fn = "formatScope"
    /\ UtilReturns(formatScope(cmd.args.input))

CallCreateBranchName ==
    /\ pc = "utils"
    /\ cmd.args.fn = "createBranchName"
    /\ UtilReturns(createBranchName(cmd.args.taskId, cmd.args.input))

(***************************************************************************)
(* The specification                                                       *)
(***************************************************************************)
Next ==
    \/ SetupWithFlags
    \/ SetupLinear
    \/ OA_Request
    \/ OA_Exchange
    \/ OA_Timeout
    \/ SetupWithOAuth
    \/ SetupGithub
    \/ ConfigOAuth
    \/ EventLoopDrains
    \/ attachPRToTask
    \/ CreateWithArgument
    \/ CreateWithSelection
    \/ ValidateType
    \/ ParseInput
    \/ CheckAssignment
    \/ ResolveIssue
    \/ ResolveModule
    \/ DetermineBranch
    \/ CB_Start
    \/ CB_Local
    \/ CB_CheckoutLocal
    \/ CB_Remote
    \/ CB_CheckoutRemote
    \/ CB_FetchBase
    \/ CB_EnsureBase
    \/ CB_Create
    \/ CB_AltRemote
    \/ CB_AltLocal
    \/ CB_AltHead
    \/ ComposeTitle
    \/ GH_Client
    \/ GH_SampleCommit
    \/ GH_Push
    \/ GH_RepoInfo
    \/ GH_Create
    \/ GH_Fallback
    \/ Annotate
    \/ CallExtractTaskId
    \/ CallFormatScope
    \/ CallCreateBranchName

Spec == Init /\ [][Next]_vars

(***************************************************************************)
(* Reading the histories                                                   *)
(***************************************************************************)
HasEv(op, arg, ok) == \E i \in 1..Len(log) : log[i] = Ev(op, arg, ok)
HasOp(op) == \E i \in 1..Len(log) : log[i].op = op
Entered(stage) == \E i \in 1..Len(stages) : stages[i] = stage

\* the attempts to create the target branch from the base: from the remote
\* base ref, from the local base branch, from the current HEAD
IsBaseAttempt(e) == e.op = "git checkout -b" /\ e.arg # "origin/target"
Attempts == SelectSeq(log, IsBaseAttempt)
StrategyRank(from) ==
    CASE from = "origin/base" -> 1
      [] from = "base" -> 2
      [] from = "HEAD" -> 3

CBLabels == {"cb_start", "cb_local", "cb_checkout_local", "cb_remote",
             "cb_checkout_remote", "cb_fetch_base", "cb_ensure_base", "cb_create",
             "cb_alt_remote", "cb_alt_local", "cb_alt_head"}
BranchError == result.status = "error" /\ result.msgs = BranchFailed
FetchBaseFailed == HasEv("git fetch origin", "base", FALSE)

(***************************************************************************)
(* C1.  In createBranch the attempts to create the target branch come in   *)
(* the order remote base ref, local base branch, current HEAD: the first   *)
(* attempt is from origin/<base>, every attempt but the last has failed,    *)
(* each attempt repeats the strategy before it or moves to the next one,   *)
(* none is skipped, and nothing follows an attempt that succeeded.         *)
(***************************************************************************)
C1_FallbackOrder ==
    LET a == Attempts
    IN  /\ Len(a) > 0 => a[1].arg = "origin/base"
        /\ \A i \in 1..(Len(a) - 1) :
               /\ ~a[i].ok
               /\ StrategyRank(a[i+1].arg) \in
                      {StrategyRank(a[i].arg), StrategyRank(a[i].arg) + 1}
               /\ a[i+1].arg = a[i].arg => a[i].arg = "origin/base"
        /\ Len(a) > 0 => ~HasOp("git checkout") /\ ~HasEv("git checkout -b", "origin/target", TRUE)
        /\ (Len(a) > 0 /\ a[Len(a)].ok) => pc \notin CBLabels

\* all three strategies were needed: the branch comes from the current HEAD
C1_Witness ==
    /\ pc = "title"
    /\ HasEv("git checkout -b", "origin/base", FALSE)
    /\ HasEv("git checkout -b", "base", FALSE)
    /\ HasEv("git checkout -b", "HEAD", TRUE)

(***************************************************************************)
(* C2, as stated.  If the fetch of the base branch failed while a local    *)
(* base branch exists, createBranch has created the target from the local  *)
(* base branch and raises no error.                                        *)
(***************************************************************************)
C2_CreatedFromLocalBase ==
    (FetchBaseFailed /\ baseBranch \in repo.localBranches /\ pc \notin CBLabels)
        => (HasEv("git checkout -b", "base", TRUE) /\ ~BranchError)

(***************************************************************************)
(* C2, amended.  If the fetch of the base branch failed while a local base *)
(* branch exists, the first attempt is from origin/<base>; only when it    *)
(* failed is the local base branch tried; when that checkout succeeds the  *)
(* branch comes from the local base, nothing else is tried and no error is *)
(* raised; HEAD is used only after the local base failed too, and an error *)
(* reaches the caller only when all three attempts failed.                 *)
(***************************************************************************)
C2_LocalBaseAfterRemoteRef ==
    (FetchBaseFailed /\ baseBranch \in repo.localBranches /\ pc \notin CBLabels)
        => LET a == Attempts
           IN  /\ Len(a) >= 1 /\ a[1].arg = "origin/base"
               /\ a[1].ok => (Len(a) = 1 /\ ~BranchError)
               /\ ~a[1].ok => (Len(a) >= 2 /\ a[2].arg = "base")
               /\ (Len(a) >= 2 /\ a[2].ok) =>
                      /\ Len(a) = 2
                      /\ ~BranchError
                      /\ branchName \in repo.localBranches
               /\ Len(a) >= 3 => (~a[2].ok /\ a[3].arg = "HEAD")
               /\ BranchError => (Len(a) = 3 /\ ~a[3].ok)

\* the fetch failed, origin/<base> could not be used, the branch comes from
\* the local base
C2_Witness ==
    /\ FetchBaseFailed
    /\ baseBranch \in repo.localBranches
    /\ pc = "title"
    /\ HasEv("git checkout -b", "origin/base", FALSE)
    /\ HasEv("git checkout -b", "base", TRUE)

ScopeOf(title) == SubSeq(title, IndexOf(title, "(") + 1, IndexOf(title, ")") - 1)

C4_ScopeGrammar ==
    \A i \in 1..Len(requests) : validateScope(ScopeOf(requests[i].title))

(***************************************************************************)
(* C5.  No run sends more than two PR-creation requests.  A second request *)
(* is sent only after the first, owner-qualified one failed, and it names  *)
(* the bare branch as head; a failed owner-qualified request is always     *)
(* followed by that one retry.  The error 'Failed to create pull request'  *)
(* reaches the caller exactly when the request with the bare head failed,  *)
(* and a request that succeeded is the last one of a run that goes on.     *)
(***************************************************************************)
C5_RetryOnce ==
    LET n == Len(requests)
        qualified == Owner \o <<":">> \o branchName
    IN  /\ n <= 2
        /\ \A i \in 1..n : requests[i].head \in {qualified, branchName}
        /\ n = 2 => /\ requests[1].head = qualified
                    /\ ~requests[1].ok
                    /\ requests[2].head = branchName
        /\ (n >= 1 /\ requests[1].head = qualified /\ ~requests[1].ok /\ pc # "gh_fallback")
               => n = 2
        /\ (result.status = "error" /\ result.msgs = PullRequestFailed)
               <=> (n >= 1 /\ requests[n].head = branchName /\ ~requests[n].ok)
        /\ (n >= 1 /\ requests[n].ok) => pc \in {"annotate", "done"}

\* both requests failed and the error has reached the caller
C5_Witness ==
    /\ pc = "failed"
    /\ Len(requests) = 2
    /\ ~requests[1].ok /\ ~requests[2].ok
    /\ result.msgs = PullRequestFailed

(***************************************************************************)
(* C6.  A failed push does not end the run: a PR-creation request follows  *)
(* it, and once the push has been tried the result is decided by the       *)
(* PR-creation requests alone: the run succeeds exactly when the last      *)
(* request succeeded and fails with their error exactly when it failed.    *)
(***************************************************************************)
C6_PushNotFatal ==
    LET n == Len(requests)
        ended == pc \in {"annotate", "done", "failed"}
    IN  /\ (HasEv("git push", "", FALSE) /\ ended) => n >= 1
        /\ (HasOp("git push") /\ pc \in {"annotate", "done"}) => (n >= 1 /\ requests[n].ok)
        /\ (HasOp("git push") /\ pc = "failed") =>
               /\ n >= 1 /\ ~requests[n].ok
               /\ result.msgs = PullRequestFailed

\* the push failed and the pull request was created all the same
C6_Witness ==
    /\ HasEv("git push", "", FALSE)
    /\ pc = "done"
    /\ result.status = "ok"

(***************************************************************************)
(* C7.  Where the remote-tracking ref of the base branch the pull request  *)
(* targets exists, createSampleCommitIfNeeded tries the empty placeholder  *)
(* commit exactly when the branch has no commit that is not on that base   *)
(* branch.                                                                 *)
(***************************************************************************)
C7_PlaceholderCommit ==
    [][(pc = "gh_sample" /\ baseBranch \in repo.remoteRefs)
           => (HasOp("git commit --allow-empty")' <=> repo.ahead[baseBranch] = 0)]_vars

(***************************************************************************)
(* C8, as stated.  A run enters its stages in the order ParseInput,        *)
(* ResolveIssue, CheckAssignment (only when enforcement is requested),     *)
(* ResolveModule, ReconcileBranch, ComposeTitle, PushAndOpenPR, Annotate,  *)
(* Done: the issue is resolved before the assignment check is made.        *)
(***************************************************************************)
IsPrefix(s, t) == Len(s) <= Len(t) /\ SubSeq(t, 1, Len(s)) = s
LaterStages == <<"ResolveModule", "ReconcileBranch", "ComposeTitle", "PushAndOpenPR",
                 "Annotate">>

C8_StatedOrder ==
    LET order == <<"ParseInput", "ResolveIssue">>
                     \o (IF opts.enforceAssignment THEN <<"CheckAssignment">> ELSE <<>>)
                     \o LaterStages
    IN  /\ IsPrefix(stages, order)
        /\ pc = "done" => stages = order

(***************************************************************************)
(* C8, amended.  A run enters its stages in the order ParseInput,          *)
(* CheckAssignment (only when enforcement is requested), ResolveIssue,     *)
(* ResolveModule, ReconcileBranch, ComposeTitle, PushAndOpenPR, Annotate,  *)
(* Done: the assignment check comes before the orchestrator resolves the   *)
(* issue.  A stage is entered only after the one before it succeeded, a    *)
(* run is done exactly when it has entered them all, and a run that failed *)
(* takes no further step.                                                  *)
(***************************************************************************)
C8_StageOrder ==
    LET order == <<"ParseInput">>
                     \o (IF opts.enforceAssignment THEN <<"CheckAssignment">> ELSE <<>>)
                     \o <<"ResolveIssue">> \o LaterStages
    IN  /\ IsPrefix(stages, order)
        /\ pc = "done" <=> stages = order
        /\ pc = "done" <=> result.status = "ok"
        /\ pc = "failed" <=> result.status = "error"
        /\ pc = "failed" => ~ENABLED Next
        /\ (Entered("CheckAssignment") \/ Entered("ResolveIssue")) => extractedTaskId # Null
        /\ Entered("ResolveModule") => task # NoTask
        /\ Entered("ReconcileBranch") => module # Null
        /\ Entered("ComposeTitle") => (repo.isRepo /\ repo.currentBranch = branchName)
        /\ Entered("PushAndOpenPR") => prTitle # Null
        /\ Entered("Annotate") => (requests # <<>> /\ requests[Len(requests)].ok)

\* a run with enforcement requested has gone through every stage
C8_Witness ==
    /\ opts.enforceAssignment
    /\ pc = "done"
    /\ Len(stages) = 8
    /\ stages[2] = "CheckAssignment"
    /\ stages[3] = "ResolveIssue"

(***************************************************************************)
(* C9.  With enforcement requested the assignment check fails closed: the  *)
(* run goes on only if the issue was found, the viewer was read and is the *)
(* assignee, and every request of the check succeeded; in every other case *)
(* (another assignee, none, an issue not found, a failed request, missing  *)
(* credentials) the run fails with 'Task is not assigned to you' before    *)
(* any git command and any PR-creation request.  Without the flag no check *)
(* is made.                                                                *)
(***************************************************************************)
TrackerOps == {"linear issues", "linear project", "linear viewer", "linear assigned"}

C9_FailClosed ==
    /\ ~opts.enforceAssignment =>
           (~Entered("CheckAssignment") /\ ~HasOp("linear viewer"))
    /\ (opts.enforceAssignment /\ Entered("CheckAssignment") /\ ~Entered("ResolveIssue")) =>
           IF /\ issue # NoIssue
              /\ issue.assignee = "me"
              /\ HasEv("linear viewer", "", TRUE)
              /\ \A i \in 1..Len(log) : log[i].ok
           THEN pc = "resolve" /\ result = Running
           ELSE /\ pc = "failed"
                /\ result.msgs = <<"Failed to create PR", "Task is not assigned to you">>
                /\ \A i \in 1..Len(log) : log[i].op \in TrackerOps \cup {"prompt"}
                /\ branchName = Null
                /\ requests = <<>>
    /\ (opts.enforceAssignment /\ Entered("ResolveIssue")) =>
           (issue # NoIssue /\ issue.assignee = "me" /\ HasEv("linear viewer", "", TRUE))

\* the viewer could not be read: the run has failed as not assigned
C9_Witness ==
    /\ opts.enforceAssignment
    /\ issue # NoIssue /\ issue.assignee = "me"
    /\ HasEv("linear viewer", "", FALSE)
    /\ pc = "failed"
    /\ result.msgs = <<"Failed to create PR", "Task is not assigned to you">>

(***************************************************************************)
(* C10.  ParseInput takes the reference for a branch name exactly when it  *)
(* contains '/', or contains '-' while not matching the task-id pattern as *)
(* a whole.  A branch-like reference yields the id that                    *)
(* extractTaskIdFromBranchName finds in it, and when none is found the run *)
(* fails before any lookup and any git command; any other reference is     *)
(* the task id as it stands.                                               *)
(***************************************************************************)
C10_ParseInput ==
    LET ref == opts.taskId
        slash == \E i \in 1..Len(ref) : ref[i] = "/"
        hyphen == \E i \in 1..Len(ref) : ref[i] = "-"
        branchLike == slash \/ (hyphen /\ ~validateTaskId(ref))
    IN  Entered("ParseInput") =>
            IF ~branchLike
            THEN extractedTaskId = ref /\ exactBranchName = opts.useExactBranchName
            ELSE IF extractTaskIdFromBranchName(ref) # Null
            THEN extractedTaskId = extractTaskIdFromBranchName(ref) /\ exactBranchName
            ELSE /\ pc = "failed"
                 /\ result.msgs = <<"Could not extract a valid Linear task ID">>
                 /\ stages = <<"ParseInput">>
                 /\ \A i \in 1..Len(log) : log[i].op = "prompt"
                 /\ requests = <<>>

\* a reference with a hyphen and no task id in it has ended the run
C10_Witness ==
    /\ ~includes(opts.taskId, "/")
    /\ includes(opts.taskId, "-")
    /\ pc = "failed"
    /\ result.msgs = <<"Could not extract a valid Linear task ID">>

(***************************************************************************)
(* C11: the target branch                                                  *)
(***************************************************************************)
\* the target branch has been determined
BranchDetermined == branchName # Null

\* the target branch for a run whose exact-branch-name option is `set`
TargetBranch(set) ==
    IF set \/ IsBranchLike(opts.taskId) THEN opts.taskId
    ELSE createBranchName(task.taskId, task.title)

\* C11 as stated: the target branch is the caller's input whenever the
\* exact-branch-name option is set or the input is branch-like, and
\* createBranchName(issue id, issue title) otherwise, where the option counts
\* as set when it is not specified, also for `create` without -e
C11_ExactUnlessSwitchedOff ==
    BranchDetermined =>
        branchName = TargetBranch(IF cmd.name = "create" THEN TRUE
                                  ELSE cmd.args.useExactBranchName # "false")

\* C11: the target branch is the caller's input whenever the
\* exact-branch-name option is set or the input is branch-like, and
\* createBranchName(issue id, issue title) otherwise; a call of
\* createPullRequest that leaves the option out has it set, and the `create`
\* command has it set exactly when -e is given
C11_TargetBranch ==
    BranchDetermined =>
        branchName = TargetBranch(IF cmd.name = "create" THEN cmd.args.exactBranch
                                  ELSE cmd.args.useExactBranchName # "false")

\* `create` without -e on a plain task id has taken the synthesized name, and
\* a call that leaves the option out would have taken the id itself
C11_Witness ==
    /\ cmd.name = "create"
    /\ ~cmd.args.exactBranch
    /\ ~IsBranchLike(opts.taskId)
    /\ pc = "done"
    /\ branchName = createBranchName(task.taskId, task.title)
    /\ branchName # opts.taskId
    /\ Destructure([taskId |-> opts.taskId, type |-> opts.type, module |-> opts.module,
                    enforceAssignment |-> "undefined",
                    useExactBranchName |-> "undefined"]).useExactBranchName

(***************************************************************************)
(* C12: the comment-back call is best-effort                               *)
(***************************************************************************)
\* C12: no failure of attachPRToTask, missing Linear credentials included,
\* raises to the caller: the call always returns, and a failure shows as a
\* warning only
C12_BestEffort ==
    cmd.name = "attach" =>
        /\ pc # "rejected"
        /\ result.status # "rejected"
        /\ pc = "attached" =>
               (HasOp("warn") \/ HasEv("linear comment", cmd.args.prUrl, TRUE))

(***************************************************************************)
(* C13: the state parameter of the OAuth callback                          *)
(***************************************************************************)
\* the n-th request of the flow is a callback
IsCallback(n) == oauth.callbacks[n].req.parses /\ oauth.callbacks[n].req.pathname = "/callback"
\* the n-th request of the flow is a callback that echoes another state
StateMismatch(n) == IsCallback(n) /\ oauth.callbacks[n].req.state # "generated"
\* resolve or reject was called for the n-th request
CalledBy(n, fn, why) ==
    \E i \in 1..Len(oauth.calls) : oauth.calls[i] = [fn |-> fn, why |-> why, by |-> n]

\* C13: a callback whose state differs from the generated one makes no token
\* request, closes the listener and rejects the flow, which has failed from
\* then on; a token request is made only for a callback with the generated
\* state, no error parameter and a code
C13_StateChecked ==
    \A n \in 1..Len(oauth.callbacks) :
        /\ StateMismatch(n) =>
               /\ oauth.callbacks[n].exchange = "none"
               /\ oauth.server = "closed"
               /\ oauth.promise = "rejected"
               /\ CalledBy(n, "reject", "Invalid state parameter")
        /\ oauth.callbacks[n].exchange # "none" =>
               /\ IsCallback(n)
               /\ oauth.callbacks[n].req.state = "generated"
               /\ ~oauth.callbacks[n].req.error
               /\ oauth.callbacks[n].req.code

\* a callback with another state, carrying a code and no error, has ended the
\* flow and with it the setup command
C13_Witness ==
    /\ Len(oauth.callbacks) = 1
    /\ StateMismatch(1)
    /\ oauth.callbacks[1].req.code /\ ~oauth.callbacks[1].req.error
    /\ oauth.reason = "Invalid state parameter"
    /\ pc = "failed"
    /\ proc = Exit(1)

(***************************************************************************)
(* C14: the callback and the timeout                                       *)
(***************************************************************************)
\* performOAuth2Flow has been called
FlowStarted == oauth.promise # "none"

HandlingFailed(n) ==
    /\ IsCallback(n)
    /\ \/ oauth.callbacks[n].req.state # "generated"
       \/ oauth.callbacks[n].req.error
       \/ ~oauth.callbacks[n].req.code
       \/ oauth.callbacks[n].exchange \in {"refused", "failed"}

\* C15: a callback whose token request succeeded is answered with 200, a
\* request whose handling raised an error with 500, and a callback whose
\* handling ended in a failure (state mismatch, error parameter, missing
\* code, failed token request) is not answered with the 200 success page
C15_ResponseStatus ==
    \A n \in 1..Len(oauth.callbacks) :
        /\ oauth.callbacks[n].exchange = "ok" => oauth.callbacks[n].response = 200
        /\ ~oauth.callbacks[n].req.parses => oauth.callbacks[n].response = 500
        /\ HandlingFailed(n) => oauth.callbacks[n].response # 200

(***************************************************************************)
(* C16: how a command ends                                                 *)
(***************************************************************************)
\* the handler of the command has run to its end
Succeeded == pc \in {"done", "returned"} /\ result.status \in {"ok", "returned"}
\* an error has reached the catch of the command or of selectFromAssignedTasks,
\* or the selected task was refused for its closed PR
Failed ==
    \/ pc = "failed" /\ result.status = "error"
    \/ pc = "exited" /\ (HasEv("linear assigned", "", FALSE)
                           \/ HasEv("prompt", "selectedTaskId", FALSE)
                           \/ HasEv("linear assigned", "PR Closed", TRUE))
\* the run was cancelled: no task is assigned, or the second PR was declined
Cancelled ==
    pc = "exited" /\ (HasEv("linear assigned", "none", TRUE)
                        \/ HasEv("prompt", "confirmCreate", FALSE))

C17_ConfigReadOnly == [][config' # config => cmd.name \in {"setup", "config-oauth"}]_vars

\* the create command has run the whole pipeline, branch creation and
\* PR-creation request included, over the configuration it started with
C17_Witness ==
    /\ cmd.name = "create"
    /\ pc = "done"
    /\ HasOp("git checkout -b")
    /\ requests # <<>>
    /\ config = SetUpConfig

(***************************************************************************)
(* C18: the form of the title                                              *)
(***************************************************************************)
\* the title is type(scope): [TASKID] description, with a scope that has no
\* character outside [a-z0-9-]
TitleForm(title, t, taskId, description) ==
    /\ \A i \in 1..Len(ScopeOf(title)) : ScopeOf(title)[i] \in ScopeChars
    /\ title = t \o <<"(">> \o ScopeOf(title) \o <<")", ":", " ", "[">>
                 \o taskId \o <<"]", " ">> \o description

\* C18: every title the orchestrator composes, and every title it hands to
\* the gateway, is {type}({scope}): [{TASKID}] {description} with a type that
\* is a lowercase member of VALID_PR_TYPES whatever type the caller passed,
\* the issue's identifier in upper case and the issue's title as it is
C18_TitleForm ==
    /\ prTitle # Null =>
           \E t \in ValidTypes :
               /\ t = toLowerCase(t)
               /\ toLowerCase(opts.type) \in ValidTypes => t = toLowerCase(opts.type)
               /\ TitleForm(prTitle, t, toUpperCase(issue.taskId), issue.title)
    /\ \A i \in 1..Len(requests) : requests[i].title = prTitle /\ prTitle # Null

\* a run called with the type Fix has sent the title fix(...): [E-4] A b
C18_Witness ==
    /\ opts.type = <<"F","i","x">>
    /\ requests # <<>>
    /\ IsPrefix(<<"f","i","x","(">>, requests[1].title)
    /\ pc = "done"

(***************************************************************************)
(* C19: the scope from the project name                                    *)
(***************************************************************************)
\* the caller passed no module and the issue that was found has a project
ScopeFromProject == Falsy(opts.module) /\ ~Falsy(task.projectName)
\* the caller has been asked for a module, none having been passed
ModulePrompted == HasOp("prompt") /\ \E ok \in BOOLEAN : HasEv("prompt", "module", ok)

ModulePrompts ==
    SelectSeq(log, LAMBDA e : e.op = "prompt" /\ e.arg \in {"module", "useFormatted",
                                                             "newModule"})

UtilReturned(fn) == pc = "value" /\ cmd.args.fn = fn

\* the text after the last "/" of s, all of s when it has no "/"
AfterLastSlash(s) == SubSeq(s, LastIndexOf(s, "/") + 1, Len(s))

\* the substrings of s of the form letters-hyphen-digits, as <<first, last>>
IdsIn(s) ==
    {ij \in (1..Len(s)) \X (1..Len(s)) :
        ij[1] <= ij[2] /\ validateTaskId(SubSeq(s, ij[1], ij[2]))}

\* r is what the claim promises for the text s: the first (leftmost, longest)
\* substring of that form in upper case, null when there is none
FirstIdOf(s, r) ==
    IF IdsIn(s) = {}
    THEN r = Null
    ELSE \E ij \in IdsIn(s) :
            /\ \A kl \in IdsIn(s) : kl[1] > ij[1] \/ (kl[1] = ij[1] /\ kl[2] <= ij[2])
            /\ r = toUpperCase(SubSeq(s, ij[1], ij[2]))

WellFormedScope(s) ==
    /\ \A i \in 1..Len(s) : s[i] \in LowerChars \cup DigitChars \cup {"-"}
    /\ s # <<>> => s[1] # "-" /\ s[Len(s)] # "-"
    /\ \A i \in 1..(Len(s) - 1) : ~(s[i] = "-" /\ s[i+1] = "-")

\* C22: the result of formatScope consists only of characters of [a-z0-9-],
\* has no leading, no trailing and no two consecutive hyphens, and formatScope
\* applied to it returns it unchanged
C22_Idempotent ==
    UtilReturned("formatScope")
        => /\ WellFormedScope(result.value)
           /\ formatScope(result.value) = result.value

\* an input with an upper-case letter, a space and hyphens at both edges
C22_Witness ==
    /\ UtilReturned("formatScope")
    /\ cmd.args.input = <<"-","B"," ","-">>
    /\ result.value = <<"b">>

(***************************************************************************)
(* C23                                                                     *)
(***************************************************************************)
\* the sanitized title the claim describes: lowercased, stripped of everything
\* except word characters, whitespace and hyphens, trimmed of the whitespace at
\* its edges, each remaining whitespace run collapsed to one hyphen
SanitizedTitle(title) ==
    CollapseRuns(trim(FilterChars(toLowerCase(title), WordChars \cup SpaceChars \cup {"-"})),
                 SpaceChars, "-")

\* feature/{team}-{number}-{title}
BranchForm(team, number, title) ==
    <<"f","e","a","t","u","r","e","/">> \o team \o <<"-">> \o number \o <<"-">> \o title

\* C23: createBranchName(taskId, title) returns feature/{team}-{number}-
\* {sanitizedTitle} with team lowercased; leading or trailing whitespace of the
\* title leaves no trace in the result, and sanitising the sanitised title
\* returns it unchanged
C23_BranchName ==
    UtilReturned("createBranchName")
        => LET team == toLowerCase(SplitPiece(cmd.args.taskId, 1))
               number == SplitPiece(cmd.args.taskId, 2)
               title == SanitizedTitle(cmd.args.input)
           IN  /\ result.value = BranchForm(team, number, title)
               /\ SanitizedTitle(title) = title

(***************************************************************************)
(* C24                                                                     *)
(***************************************************************************)
\* the events the step adds to the log
NewEvents == SubSeq(log', Len(log) + 1, Len(log'))

\* the stored credential of a service, with the auth-mode flag or the user name
CredentialOf(cf, service) ==
    IF service = "linear"
    THEN <<cf.linearAccessToken, cf.isApiKey>>
    ELSE <<cf.githubToken, cf.githubUsername>>

\* within one step: the credential of the service is written only by a
\* config.set that follows a successful who-am-I call of the step, and a failed
\* who-am-I call ends the step with an error and the credential as it was
VerifiedBeforeStored(service) ==
    LET new == NewEvents
        verify == IF service = "linear" THEN "linear verify" ELSE "github verify"
        saves == {i \in 1..Len(new) : new[i] = Saved(service)}
        calls(ok) == {i \in 1..Len(new) : new[i] = Ev(verify, "", ok)}
    IN  /\ CredentialOf(config', service) # CredentialOf(config, service) => saves # {}
        /\ \A i \in saves : \E j \in calls(TRUE) : j < i
        /\ calls(FALSE) # {}
            => /\ saves = {}
               /\ CredentialOf(config', service) = CredentialOf(config, service)
               /\ pc' = "failed" /\ result'.status = "error"

\* C24: in every setup flow (interactive API key, OAuth, the two flags) a
\* credential is written to the configuration only after the who-am-I call
\* with it has succeeded; when that call fails the setup step fails with an
\* error and the stored credential and auth-mode flag stay as they were
C24_VerifiedBeforeStored ==
    [][cmd.name = "setup"
        => VerifiedBeforeStored("linear") /\ VerifiedBeforeStored("github")]_vars

\* over a stored OAuth token, the OAuth flow has delivered a token whose
\* verification failed: the setup has failed and the configuration is as before
C24_Witness ==
    /\ cmd.name = "setup"
    /\ oauth.promise = "resolved"
    /\ HasEv("linear verify", "", FALSE)
    /\ pc = "failed"
    /\ config = StoredOAuthConfig

(***************************************************************************)
(* C25                                                                     *)
(***************************************************************************)
\* C25: every PR-creation request issued on behalf of the create command,
\* the first attempt and the fallback retry alike, asks for a draft
C25_AlwaysDraft ==
    cmd.name = "create" => \A i \in 1..Len(requests) : requests[i].draft

\* the create command has sent the owner-qualified request and, after its
\* failure, the fallback request with the bare branch name
C25_Witness ==
    /\ cmd.name = "create"
    /\ Len(requests) = 2
    /\ ~requests[1].ok
    /\ requests[2].head = branchName

(***************************************************************************)
(* C26, C27, C28                                                           *)
(***************************************************************************)
\* the callbacks of the flow for which a token request was sent
Exchanges == {n \in 1..Len(oauth.callbacks) : oauth.callbacks[n].exchange # "none"}

\* C26: within one OAuth loopback flow at most one token-exchange request is
\* sent, whatever number of requests reach /callback and however they
\* interleave with an exchange that is in flight
C26_OneExchange == Cardinality(Exchanges) <= 1

\* C27: once a callback with the matching state and a code has been received,
\* the flow is settled by that callback's token exchange or by the timeout,
\* not by a request to /callback that arrives while the exchange is in flight
C27_DecidedByExchange ==
    \A n \in Exchanges :
        (\A m \in Exchanges : n <= m) /\ oauth.calls # <<>>
            => \/ oauth.calls[1].by \in {0, n}
               \/ ~IsCallback(oauth.calls[1].by)

\* C28: after the flow has settled through a callback no timeout timer is
\* pending
C28_NoTimerAfterCallback ==
    oauth.calls # <<>> /\ oauth.calls[1].by # 0 /\ IsCallback(oauth.calls[1].by)
        => oauth.timer # "armed"

(***************************************************************************)
(* C29                                                                     *)
(***************************************************************************)
\* the steps of createBranch
BranchSteps ==
    {"cb_start", "cb_local", "cb_checkout_local", "cb_remote", "cb_checkout_remote",
     "cb_fetch_base", "cb_ensure_base", "cb_create", "cb_alt_remote", "cb_alt_local",
     "cb_alt_head"}

\* the git commands of branch reconciliation: listing, fetching, checking out
\* and creating branches
ReconcileOps ==
    {"git branch --list", "git branch -r", "git branch", "git checkout",
     "git checkout -b", "git fetch", "git fetch origin", "git pull origin"}

\* one step: after the comparison the run goes on to the title when the branch
\* checked out is the target and into createBranch when it is not; createBranch
\* is entered from nowhere else; and only createBranch runs a command of branch
\* reconciliation or changes the local branches or the branch checked out
ReconciledOnlyWhenDiffers ==
    /\ pc = "branch" /\ pc' # "failed"
        => pc' = IF repo.currentBranch = branchName' THEN "title" ELSE "cb_start"
    /\ pc' \in BranchSteps => pc \in BranchSteps \cup {"branch"}
    /\ \/ \E i \in 1..Len(NewEvents) : NewEvents[i].op \in ReconcileOps
       \/ repo'.currentBranch # repo.currentBranch
       \/ repo'.localBranches # repo.localBranches
       => pc \in BranchSteps

\* C29: when the branch checked out equals the target branch the orchestrator
\* performs no branch reconciliation (no checkout, no fetch, no branch
\* creation) and goes on to the title and the PR from that branch; createBranch
\* is called exactly when the two differ
C29_ReconciledOnlyWhenDiffers == [][ReconciledOnlyWhenDiffers]_vars

\* a run that started on the target branch has opened its PR without any
\* command of branch reconciliation
C29_Witness ==
    /\ pc = "done"
    /\ HasEv("git branch --show-current", "", TRUE)
    /\ \A i \in 1..Len(log) : log[i].op \notin ReconcileOps
    /\ repo.currentBranch = branchName
    /\ requests # <<>> /\ requests[Len(requests)].ok

(***************************************************************************)
(* C30                                                                     *)
(***************************************************************************)
\* the run is one of `create` without an argument, past the selection
Selected == cmd.name = "create" /\ Falsy(cmd.args.taskIdOrBranch) /\ pc # "create"

\* the command has ended with this exit code before createPullRequest was
\* called: nothing was done for a branch or a PR
EndedBeforeCall(code) ==
    /\ pc = "exited"
    /\ proc = Exit(code)
    /\ opts = NoOptions
    /\ stages = <<>>
    /\ branchName = Null
    /\ requests = <<>>
    /\ \A i \in 1..Len(log) : log[i].op \in {"linear assigned", "prompt"}

\* C30: when create is run without an argument the orchestrator is invoked
\* for the selected task only if the task has no closed PR and, when it has an
\* open PR, only after the caller confirmed creating another one; a task with
\* a closed PR, not selectable and selected nevertheless, ends the command
\* with exit code 1, declining the confirmation ends it with exit code 0, and
\* in both cases no branch or PR is created
C30_SelectionGuards ==
    Selected =>
        /\ pc # "exited"
            => /\ ~HasEv("linear assigned", "PR Closed", TRUE)
               /\ HasEv("linear assigned", "PR Open", TRUE)
                    => HasEv("prompt", "confirmCreate", TRUE)
        /\ HasEv("linear assigned", "PR Closed", TRUE) => EndedBeforeCall(1)
        /\ HasEv("prompt", "confirmCreate", FALSE) => EndedBeforeCall(0)

\* the prompt has returned a task with a closed PR nevertheless, and the
\* command has ended with exit code 1
C30_Witness ==
    /\ Selected
    /\ HasEv("linear assigned", "PR Closed", TRUE)
    /\ HasEv("prompt", "selectedTaskId", TRUE)
    /\ EndedBeforeCall(1)

=============================================================================
